---- MODULE Spec2Model ----
(***************************************************************************)
(* Xiaomi Miio fan platform (homeassistant/components/xiaomi_miio/fan.py): *)
(* entity construction per model, capability-gated named actions, polling  *)
(* with availability tracking, and the broadcast service handler.          *)
(***************************************************************************)
EXTENDS Integers, Sequences, FiniteSets, TLC

(***************************************************************************)
(* Python values.  A value carries its type in `kind`, so that comparisons *)
(* such as `result == SUCCESS` or isinstance(value, Enum) are computed.    *)
(***************************************************************************)
None == [kind |-> "NoneType", value |-> 0]

PyBool(b) == [kind |-> "bool", value |-> b]

PyInt(n) == [kind |-> "int", value |-> n]

PyStr(s) == [kind |-> "str", value |-> s]

PyList(s) == [kind |-> "list", value |-> s]

\* A member of an enum.Enum subclass; `value` is the member's .value
EnumMember(v) == [kind |-> "Enum", value |-> v]

\* Python truthiness of the values the handlers test (`if speed:`, `if result:`)
Truthy(v) ==
    CASE v.kind = "NoneType" -> FALSE
      [] v.kind = "bool" -> v.value
      [] v.kind = "int" -> v.value # 0
      [] v.kind = "str" -> v.value # ""
      [] v.kind = "list" -> v.value # <<>>
      [] OTHER -> TRUE

(***************************************************************************)
(* Integer bit operations (`|` and `&` on the feature bitset).             *)
(***************************************************************************)
RECURSIVE BitAnd(_, _)
BitAnd(a, b) ==
    IF a = 0 \/ b = 0 THEN 0
    ELSE (a % 2) * (b % 2) + 2 * BitAnd(a \div 2, b \div 2)

RECURSIVE BitOr(_, _)
BitOr(a, b) ==
    IF a = 0 THEN b
    ELSE IF b = 0 THEN a
    ELSE (IF a % 2 = 1 \/ b % 2 = 1 THEN 1 ELSE 0) + 2 * BitOr(a \div 2, b \div 2)

RECURSIVE BitOrAll(_)
BitOrAll(s) == IF s = <<>> THEN 0 ELSE BitOr(Head(s), BitOrAll(Tail(s)))

(***************************************************************************)
(* Module constants of fan.py.                                             *)
(***************************************************************************)
ATTR_MODEL == "model"

SUCCESS == PyList(<<PyStr("ok")>>)

\* homeassistant.components.fan.SUPPORT_SET_SPEED (imported at fan.py:44)
SUPPORT_SET_SPEED == 1

AVAILABLE_ATTRIBUTES_AIRPURIFIER_COMMON ==
    ("button_pressed" :> "button_pressed") @@
    ("turbo_mode_supported" :> "turbo_mode_supported") @@
    ("extra_features" :> "extra_features") @@
    ("learn_mode" :> "learn_mode") @@
    ("average_aqi" :> "average_aqi") @@
    ("motor_speed" :> "motor_speed") @@
    ("led" :> "led") @@
    ("child_lock" :> "child_lock") @@
    ("favorite_level" :> "favorite_level") @@
    ("filter_life_remaining" :> "filter_life_remaining") @@
    ("filter_hours_used" :> "filter_hours_used") @@
    ("mode" :> "mode") @@
    ("aqi" :> "aqi") @@
    ("humidity" :> "humidity") @@
    ("temperature" :> "temperature")

AVAILABLE_ATTRIBUTES_AIRPURIFIER ==
    ("sleep_mode" :> "sleep_mode") @@
    ("led_brightness" :> "led_brightness") @@
    ("buzzer" :> "buzzer") @@
    ("use_time" :> "use_time") @@
    ("auto_detect" :> "auto_detect") @@
    ("sleep_mode_learn_count" :> "sleep_mode_learn_count") @@
    ("sleep_time" :> "sleep_time") @@
    ("purify_volume" :> "purify_volume") @@
    AVAILABLE_ATTRIBUTES_AIRPURIFIER_COMMON

AVAILABLE_ATTRIBUTES_AIRPURIFIER_PRO ==
    ("sleep_mode_learn_count" :> "sleep_mode_learn_count") @@
    ("sleep_time" :> "sleep_time") @@
    ("auto_detect" :> "auto_detect") @@
    ("volume" :> "volume") @@
    ("motor2_speed" :> "motor2_speed") @@
    ("illuminance" :> "illuminance") @@
    ("filter_type" :> "filter_type") @@
    ("filter_rfid_tag" :> "filter_rfid_tag") @@
    ("filter_rfid_product_id" :> "filter_rfid_product_id") @@
    ("use_time" :> "use_time") @@
    ("purify_volume" :> "purify_volume") @@
    AVAILABLE_ATTRIBUTES_AIRPURIFIER_COMMON

AVAILABLE_ATTRIBUTES_AIRPURIFIER_PRO_V7 ==
    ("volume" :> "volume") @@
    ("motor2_speed" :> "motor2_speed") @@
    ("illuminance" :> "illuminance") @@
    ("filter_type" :> "filter_type") @@
    ("filter_rfid_tag" :> "filter_rfid_tag") @@
    ("filter_rfid_product_id" :> "filter_rfid_product_id") @@
    AVAILABLE_ATTRIBUTES_AIRPURIFIER_COMMON

AVAILABLE_ATTRIBUTES_AIRPURIFIER_2S ==
    ("illuminance" :> "illuminance") @@
    ("filter_type" :> "filter_type") @@
    ("filter_rfid_tag" :> "filter_rfid_tag") @@
    ("filter_rfid_product_id" :> "filter_rfid_product_id") @@
    ("buzzer" :> "buzzer") @@
    AVAILABLE_ATTRIBUTES_AIRPURIFIER_COMMON

AVAILABLE_ATTRIBUTES_AIRPURIFIER_3 ==
    ("fan_level" :> "fan_level") @@
    ("filter_type" :> "filter_type") @@
    ("filter_rfid_tag" :> "filter_rfid_tag") @@
    ("filter_rfid_product_id" :> "filter_rfid_product_id") @@
    ("led_brightness" :> "led_brightness") @@
    ("buzzer" :> "buzzer") @@
    ("use_time" :> "use_time") @@
    ("purify_volume" :> "purify_volume") @@
    ("average_aqi" :> "average_aqi") @@
    ("motor_speed" :> "motor_speed") @@
    ("led" :> "led") @@
    ("child_lock" :> "child_lock") @@
    ("favorite_level" :> "favorite_level") @@
    ("filter_life_remaining" :> "filter_life_remaining") @@
    ("filter_hours_used" :> "filter_hours_used") @@
    ("mode" :> "mode") @@
    ("aqi" :> "aqi") @@
    ("humidity" :> "humidity") @@
    ("temperature" :> "temperature")

AVAILABLE_ATTRIBUTES_AIRPURIFIER_3C ==
    ("led_brightness" :> "led_brightness_level") @@
    ("buzzer" :> "buzzer") @@
    ("motor_speed" :> "motor_speed") @@
    ("child_lock" :> "child_lock") @@
    ("favorite_level" :> "favorite_rpm") @@
    ("filter_life_remaining" :> "filter_life_remaining") @@
    ("filter_hours_used" :> "filter_hours_used") @@
    ("mode" :> "mode") @@
    ("aqi" :> "aqi")

AVAILABLE_ATTRIBUTES_AIRPURIFIER_V3 ==
    ("button_pressed" :> "button_pressed") @@
    ("use_time" :> "use_time") @@
    ("auto_detect" :> "auto_detect") @@
    ("extra_features" :> "extra_features") @@
    ("sleep_mode_learn_count" :> "sleep_mode_learn_count") @@
    ("sleep_time" :> "sleep_time") @@
    ("learn_mode" :> "learn_mode") @@
    ("purify_volume" :> "purify_volume") @@
    ("filter_type" :> "filter_type") @@
    ("filter_rfid_tag" :> "filter_rfid_tag") @@
    ("filter_rfid_product_id" :> "filter_rfid_product_id") @@
    ("motor2_speed" :> "motor2_speed") @@
    ("volume" :> "volume") @@
    ("average_aqi" :> "average_aqi") @@
    ("motor_speed" :> "motor_speed") @@
    ("filter_life_remaining" :> "filter_life_remaining") @@
    ("filter_hours_used" :> "filter_hours_used") @@
    ("illuminance" :> "illuminance") @@
    ("child_lock" :> "child_lock") @@
    ("buzzer" :> "buzzer") @@
    ("led" :> "led") @@
    ("mode" :> "mode") @@
    ("aqi" :> "aqi")

AVAILABLE_ATTRIBUTES_AIRHUMIDIFIER_COMMON ==
    ("use_time" :> "use_time") @@
    ("led_brightness" :> "led_brightness") @@
    ("target_humidity" :> "target_humidity") @@
    ("child_lock" :> "child_lock") @@
    ("buzzer" :> "buzzer") @@
    ("mode" :> "mode") @@
    ("humidity" :> "humidity") @@
    ("temperature" :> "temperature")

AVAILABLE_ATTRIBUTES_AIRHUMIDIFIER ==
    ("hardware_version" :> "hardware_version") @@
    ("button_pressed" :> "button_pressed") @@
    ("trans_level" :> "trans_level") @@
    AVAILABLE_ATTRIBUTES_AIRHUMIDIFIER_COMMON

AVAILABLE_ATTRIBUTES_AIRHUMIDIFIER_CA_AND_CB ==
    ("hardware_version" :> "hardware_version") @@
    ("dry" :> "dry") @@
    ("depth" :> "depth") @@
    ("motor_speed" :> "motor_speed") @@
    AVAILABLE_ATTRIBUTES_AIRHUMIDIFIER_COMMON

AVAILABLE_ATTRIBUTES_AIRHUMIDIFIER_CA4 ==
    ("motor_speed" :> "motor_speed") @@
    ("fahrenheit" :> "fahrenheit") @@
    ("dry" :> "dry") @@
    ("button_pressed" :> "button_pressed") @@
    ("actual_speed" :> "actual_speed") @@
    AVAILABLE_ATTRIBUTES_AIRHUMIDIFIER_COMMON

AVAILABLE_ATTRIBUTES_AIRFRESH ==
    ("extra_features" :> "extra_features") @@
    ("motor_speed" :> "motor_speed") @@
    ("use_time" :> "use_time") @@
    ("filter_hours_used" :> "filter_hours_used") @@
    ("filter_life_remaining" :> "filter_life_remaining") @@
    ("child_lock" :> "child_lock") @@
    ("buzzer" :> "buzzer") @@
    ("led_brightness" :> "led_brightness") @@
    ("led" :> "led") @@
    ("mode" :> "mode") @@
    ("humidity" :> "humidity") @@
    ("co2" :> "co2") @@
    ("average_aqi" :> "average_aqi") @@
    ("aqi" :> "aqi") @@
    ("temperature" :> "temperature")

OPERATION_MODES_AIRPURIFIER == <<"Auto", "Silent", "Favorite", "Idle">>

OPERATION_MODES_AIRPURIFIER_PRO == <<"Auto", "Silent", "Favorite">>

OPERATION_MODES_AIRPURIFIER_PRO_V7 == OPERATION_MODES_AIRPURIFIER_PRO

OPERATION_MODES_AIRPURIFIER_2S == <<"Auto", "Silent", "Favorite">>

OPERATION_MODES_AIRPURIFIER_3 == <<"Auto", "Silent", "Favorite", "Fan">>

OPERATION_MODES_AIRPURIFIER_V3 == <<"Auto", "Silent", "Favorite", "Idle", "Medium", "High", "Strong">>

OPERATION_MODES_AIRPURIFIER_3C == <<"Auto", "Silent", "Favorite">>

OPERATION_MODES_AIRFRESH == <<"Auto", "Silent", "Interval", "Low", "Middle", "Strong">>

FEATURE_SET_BUZZER == 1
FEATURE_SET_LED == 2
FEATURE_SET_CHILD_LOCK == 4
FEATURE_SET_LED_BRIGHTNESS == 8
FEATURE_SET_FAVORITE_LEVEL == 16
FEATURE_SET_AUTO_DETECT == 32
FEATURE_SET_LEARN_MODE == 64
FEATURE_SET_VOLUME == 128
FEATURE_RESET_FILTER == 256
FEATURE_SET_EXTRA_FEATURES == 512
FEATURE_SET_TARGET_HUMIDITY == 1024
FEATURE_SET_DRY == 2048
FEATURE_SET_FAN_LEVEL == 4096
FEATURE_SET_MOTOR_SPEED == 8192

FEATURE_FLAGS_AIRPURIFIER ==
    BitOrAll(<<
        FEATURE_SET_BUZZER,
        FEATURE_SET_CHILD_LOCK,
        FEATURE_SET_LED,
        FEATURE_SET_LED_BRIGHTNESS,
        FEATURE_SET_FAVORITE_LEVEL,
        FEATURE_SET_LEARN_MODE,
        FEATURE_RESET_FILTER,
        FEATURE_SET_EXTRA_FEATURES
    >>)

FEATURE_FLAGS_AIRPURIFIER_PRO ==
    BitOrAll(<<
        FEATURE_SET_CHILD_LOCK,
        FEATURE_SET_LED,
        FEATURE_SET_FAVORITE_LEVEL,
        FEATURE_SET_AUTO_DETECT,
        FEATURE_SET_VOLUME
    >>)

FEATURE_FLAGS_AIRPURIFIER_PRO_V7 ==
    BitOrAll(<<
        FEATURE_SET_CHILD_LOCK,
        FEATURE_SET_LED,
        FEATURE_SET_FAVORITE_LEVEL,
        FEATURE_SET_VOLUME
    >>)

FEATURE_FLAGS_AIRPURIFIER_2S ==
    BitOrAll(<<
        FEATURE_SET_BUZZER,
        FEATURE_SET_CHILD_LOCK,
        FEATURE_SET_LED,
        FEATURE_SET_FAVORITE_LEVEL
    >>)

FEATURE_FLAGS_AIRPURIFIER_3 ==
    BitOrAll(<<
        FEATURE_SET_BUZZER,
        FEATURE_SET_CHILD_LOCK,
        FEATURE_SET_LED,
        FEATURE_SET_FAVORITE_LEVEL,
        FEATURE_SET_FAN_LEVEL,
        FEATURE_SET_LED_BRIGHTNESS
    >>)

FEATURE_FLAGS_AIRPURIFIER_3C ==
    BitOrAll(<<
        FEATURE_SET_BUZZER,
        FEATURE_SET_CHILD_LOCK,
        FEATURE_SET_LED,
        FEATURE_SET_FAVORITE_LEVEL,
        FEATURE_SET_FAN_LEVEL,
        FEATURE_SET_LED_BRIGHTNESS
    >>)

FEATURE_FLAGS_AIRPURIFIER_V3 ==
    BitOrAll(<<
        FEATURE_SET_BUZZER,
        FEATURE_SET_CHILD_LOCK,
        FEATURE_SET_LED
    >>)

FEATURE_FLAGS_AIRHUMIDIFIER ==
    BitOrAll(<<
        FEATURE_SET_BUZZER,
        FEATURE_SET_CHILD_LOCK,
        FEATURE_SET_LED,
        FEATURE_SET_LED_BRIGHTNESS,
        FEATURE_SET_TARGET_HUMIDITY
    >>)

FEATURE_FLAGS_AIRHUMIDIFIER_CA_AND_CB ==
    BitOr(FEATURE_FLAGS_AIRHUMIDIFIER, FEATURE_SET_DRY)

FEATURE_FLAGS_AIRHUMIDIFIER_CA4 ==
    BitOrAll(<<
        FEATURE_SET_BUZZER,
        FEATURE_SET_CHILD_LOCK,
        FEATURE_SET_LED_BRIGHTNESS,
        FEATURE_SET_TARGET_HUMIDITY,
        FEATURE_SET_DRY,
        FEATURE_SET_MOTOR_SPEED
    >>)

FEATURE_FLAGS_AIRFRESH ==
    BitOrAll(<<
        FEATURE_SET_BUZZER,
        FEATURE_SET_CHILD_LOCK,
        FEATURE_SET_LED,
        FEATURE_SET_LED_BRIGHTNESS,
        FEATURE_RESET_FILTER,
        FEATURE_SET_EXTRA_FEATURES
    >>)

(***************************************************************************)
(* Model identifiers (xiaomi_miio/const.py, imported at fan.py:58-95).  A  *)
(* model string is kept as its dot-separated components, so that           *)
(* model.startswith("zhimi.airpurifier.") is computed, not looked up.      *)
(***************************************************************************)
MODEL_AIRPURIFIER_V1 == <<"zhimi", "airpurifier", "v1">>

MODEL_AIRPURIFIER_V3 == <<"zhimi", "airpurifier", "v3">>

MODEL_AIRPURIFIER_PRO == <<"zhimi", "airpurifier", "v6">>

MODEL_AIRPURIFIER_PRO_V7 == <<"zhimi", "airpurifier", "v7">>

MODEL_AIRPURIFIER_2S == <<"zhimi", "airpurifier", "mc1">>

MODEL_AIRPURIFIER_3 == <<"zhimi", "airpurifier", "ma4">>

MODEL_AIRPURIFIER_3H == <<"zhimi", "airpurifier", "mb3">>

MODEL_AIRPURIFIER_PROH == <<"zhimi", "airpurifier", "va1">>

MODEL_AIRPURIFIER_3C == <<"zhimi", "airpurifier", "mb4">>

MODEL_AIRHUMIDIFIER_V1 == <<"zhimi", "humidifier", "v1">>

MODEL_AIRHUMIDIFIER_CA1 == <<"zhimi", "humidifier", "ca1">>

MODEL_AIRHUMIDIFIER_CA4 == <<"zhimi", "humidifier", "ca4">>

MODEL_AIRHUMIDIFIER_CB1 == <<"zhimi", "humidifier", "cb1">>

MODEL_AIRFRESH_VA2 == <<"zhimi", "airfresh", "va2">>

\* a model of no supported family
MODEL_UNSUPPORTED == <<"zhimi", "fan", "v2">>

MODELS_PURIFIER_MIOT ==
    {MODEL_AIRPURIFIER_3, MODEL_AIRPURIFIER_3H, MODEL_AIRPURIFIER_PROH}

MODELS_HUMIDIFIER_MIOT == {MODEL_AIRHUMIDIFIER_CA4}

\* str.startswith(prefix) for a prefix that ends in a dot
StartsWith(model, prefix) ==
    /\ Len(model) > Len(prefix)
    /\ SubSeq(model, 1, Len(prefix)) = prefix

(***************************************************************************)
(* Enumerations of the vendor library (miio), imported at fan.py:16-36.    *)
(***************************************************************************)
AirpurifierOperationMode ==
    {"Auto", "Silent", "Favorite", "Idle", "Medium", "High", "Strong"}

AirpurifierMiotOperationMode == {"Auto", "Silent", "Favorite", "Fan"}

\* in declaration order, as iterated by XiaomiAirHumidifier.__init__
AirhumidifierOperationMode == <<"Silent", "Medium", "High", "Auto", "Strong">>

AirfreshOperationMode ==
    {"Auto", "Silent", "Interval", "Low", "Middle", "Strong"}

\* LedBrightness(value) of every family: Bright = 0, Dim = 1, Off = 2
LedBrightnessValues == {0, 1, 2}

SPEED_LOW == "low"

SPEED_MEDIUM == "medium"

SPEED_HIGH == "high"

\* XiaomiAirHumidifierMiot.REVERSE_MODE_MAPPING: speed -> OperationMode member
REVERSE_MODE_MAPPING ==
    (SPEED_LOW :> "Low") @@ (SPEED_MEDIUM :> "Mid") @@ (SPEED_HIGH :> "High")

\* The sequence without the elements equal to x, in order
RECURSIVE SelectNot(_, _)
SelectNot(s, x) ==
    IF s = <<>> THEN <<>>
    ELSE IF Head(s) = x THEN SelectNot(Tail(s), x)
    ELSE <<Head(s)>> \o SelectNot(Tail(s), x)

(***************************************************************************)
(* Entity construction.                                                    *)
(***************************************************************************)
\* XiaomiGenericDevice.__init__
GenericDevice(model, cls, entity_id) ==
    [ model |-> model,
      cls |-> cls,
      entity_id |-> entity_id,
      _available |-> FALSE,
      _state |-> None,
      _state_attrs |-> (ATTR_MODEL :> PyStr(model)),
      _device_features |-> FEATURE_SET_CHILD_LOCK,
      _available_attributes |-> << >>,
      _speed_list |-> << >>,
      _skip_update |-> FALSE ]

\* Variant of InitAttrs: the attribute map keeps only the model
InitAttrs_ModelOnly(e) == e

\* self._state_attrs.update({attribute: None for attribute in table})
InitAttrs(e) ==
    [e EXCEPT !._state_attrs =
        [k \in DOMAIN e._available_attributes |-> None] @@ @]

\* The (features, attribute table, speed list) branch of XiaomiAirPurifier.__init__
AirPurifierVariant(model) ==
    IF model = MODEL_AIRPURIFIER_PRO THEN
        <<FEATURE_FLAGS_AIRPURIFIER_PRO, AVAILABLE_ATTRIBUTES_AIRPURIFIER_PRO,
          OPERATION_MODES_AIRPURIFIER_PRO>>
    ELSE IF model = MODEL_AIRPURIFIER_PRO_V7 THEN
        <<FEATURE_FLAGS_AIRPURIFIER_PRO_V7, AVAILABLE_ATTRIBUTES_AIRPURIFIER_PRO_V7,
          OPERATION_MODES_AIRPURIFIER_PRO_V7>>
    ELSE IF model = MODEL_AIRPURIFIER_2S THEN
        <<FEATURE_FLAGS_AIRPURIFIER_2S, AVAILABLE_ATTRIBUTES_AIRPURIFIER_2S,
          OPERATION_MODES_AIRPURIFIER_2S>>
    ELSE IF model = MODEL_AIRPURIFIER_3 \/ model = MODEL_AIRPURIFIER_3H THEN
        <<FEATURE_FLAGS_AIRPURIFIER_3, AVAILABLE_ATTRIBUTES_AIRPURIFIER_3,
          OPERATION_MODES_AIRPURIFIER_3>>
    ELSE IF model = MODEL_AIRPURIFIER_V3 THEN
        <<FEATURE_FLAGS_AIRPURIFIER_V3, AVAILABLE_ATTRIBUTES_AIRPURIFIER_V3,
          OPERATION_MODES_AIRPURIFIER_V3>>
    ELSE IF model = MODEL_AIRPURIFIER_3C THEN
        <<FEATURE_FLAGS_AIRPURIFIER_3C, AVAILABLE_ATTRIBUTES_AIRPURIFIER_3C,
          OPERATION_MODES_AIRPURIFIER_3C>>
    ELSE
        <<FEATURE_FLAGS_AIRPURIFIER, AVAILABLE_ATTRIBUTES_AIRPURIFIER,
          OPERATION_MODES_AIRPURIFIER>>

\* The branch of XiaomiAirHumidifier.__init__
AirHumidifierVariant(model) ==
    IF model \in {MODEL_AIRHUMIDIFIER_CA1, MODEL_AIRHUMIDIFIER_CB1} THEN
        <<FEATURE_FLAGS_AIRHUMIDIFIER_CA_AND_CB,
          AVAILABLE_ATTRIBUTES_AIRHUMIDIFIER_CA_AND_CB,
          SelectNot(AirhumidifierOperationMode, "Strong")>>
    ELSE IF model \in {MODEL_AIRHUMIDIFIER_CA4} THEN
        <<FEATURE_FLAGS_AIRHUMIDIFIER_CA4, AVAILABLE_ATTRIBUTES_AIRHUMIDIFIER_CA4,
          <<SPEED_LOW, SPEED_MEDIUM, SPEED_HIGH>> >>
    ELSE
        <<FEATURE_FLAGS_AIRHUMIDIFIER, AVAILABLE_ATTRIBUTES_AIRHUMIDIFIER,
          SelectNot(AirhumidifierOperationMode, "Auto")>>

\* XiaomiAirFresh.__init__ has one variant
AirFreshVariant ==
    <<FEATURE_FLAGS_AIRFRESH, AVAILABLE_ATTRIBUTES_AIRFRESH, OPERATION_MODES_AIRFRESH>>

WithVariant(e, v) ==
    InitAttrs([e EXCEPT !._device_features = v[1],
                        !._available_attributes = v[2],
                        !._speed_list = v[3]])

\* XiaomiAirPurifier.__init__ (XiaomiAirPurifierMiot inherits it)
XiaomiAirPurifier(model, cls, entity_id) ==
    WithVariant(GenericDevice(model, cls, entity_id), AirPurifierVariant(model))

\* XiaomiAirHumidifier.__init__ (XiaomiAirHumidifierMiot inherits it)
XiaomiAirHumidifier(model, cls, entity_id) ==
    WithVariant(GenericDevice(model, cls, entity_id), AirHumidifierVariant(model))

\* XiaomiAirFresh.__init__
XiaomiAirFresh(model, cls, entity_id) ==
    WithVariant(GenericDevice(model, cls, entity_id), AirFreshVariant)

\* Variant of EntityClass: a model of no family gets the air fresh entity
EntityClass_FreshFallback(model) ==
    IF model = MODEL_AIRPURIFIER_3C THEN "XiaomiAirPurifierMiot"
    ELSE IF model \in MODELS_PURIFIER_MIOT THEN "XiaomiAirPurifierMiot"
    ELSE IF StartsWith(model, <<"zhimi", "airpurifier">>) THEN "XiaomiAirPurifier"
    ELSE IF model \in MODELS_HUMIDIFIER_MIOT THEN "XiaomiAirHumidifierMiot"
    ELSE IF StartsWith(model, <<"zhimi", "humidifier">>) THEN "XiaomiAirHumidifier"
    ELSE "XiaomiAirFresh"

\* Variant of EntityClass: the family prefixes are tested before the lists
EntityClass_PrefixFirst(model) ==
    IF StartsWith(model, <<"zhimi", "airpurifier">>) THEN "XiaomiAirPurifier"
    ELSE IF StartsWith(model, <<"zhimi", "humidifier">>) THEN "XiaomiAirHumidifier"
    ELSE IF StartsWith(model, <<"zhimi", "airfresh">>) THEN "XiaomiAirFresh"
    ELSE IF model = MODEL_AIRPURIFIER_3C THEN "XiaomiAirPurifierMiot"
    ELSE IF model \in MODELS_PURIFIER_MIOT THEN "XiaomiAirPurifierMiot"
    ELSE IF model \in MODELS_HUMIDIFIER_MIOT THEN "XiaomiAirHumidifierMiot"
    ELSE ""

\* The entity class async_setup_entry selects for a model; "" when unsupported
EntityClass(model) ==
    IF model = MODEL_AIRPURIFIER_3C THEN "XiaomiAirPurifierMiot"
    ELSE IF model \in MODELS_PURIFIER_MIOT THEN "XiaomiAirPurifierMiot"
    ELSE IF StartsWith(model, <<"zhimi", "airpurifier">>) THEN "XiaomiAirPurifier"
    ELSE IF model \in MODELS_HUMIDIFIER_MIOT THEN "XiaomiAirHumidifierMiot"
    ELSE IF StartsWith(model, <<"zhimi", "humidifier">>) THEN "XiaomiAirHumidifier"
    ELSE IF StartsWith(model, <<"zhimi", "airfresh">>) THEN "XiaomiAirFresh"
    ELSE ""

\* entity = <class>(name, device, config_entry, unique_id)
NewEntity(model, entity_id) ==
    LET cls == EntityClass(model) IN
    IF cls \in {"XiaomiAirPurifier", "XiaomiAirPurifierMiot"}
        THEN XiaomiAirPurifier(model, cls, entity_id)
    ELSE IF cls \in {"XiaomiAirHumidifier", "XiaomiAirHumidifierMiot"}
        THEN XiaomiAirHumidifier(model, cls, entity_id)
    ELSE XiaomiAirFresh(model, cls, entity_id)

(***************************************************************************)
(* Named actions: the entity methods SERVICE_TO_METHOD dispatches to.      *)
(***************************************************************************)
GenericMethods ==
    {"async_set_buzzer_on", "async_set_buzzer_off",
     "async_set_child_lock_on", "async_set_child_lock_off"}

AirPurifierMethods ==
    GenericMethods \cup
    {"async_set_led_on", "async_set_led_off", "async_set_led_brightness",
     "async_set_favorite_level", "async_set_fan_level",
     "async_set_auto_detect_on", "async_set_auto_detect_off",
     "async_set_learn_mode_on", "async_set_learn_mode_off",
     "async_set_volume", "async_set_extra_features", "async_reset_filter"}

AirHumidifierMethods ==
    GenericMethods \cup
    {"async_set_led_brightness", "async_set_target_humidity",
     "async_set_dry_on", "async_set_dry_off"}

AirHumidifierMiotMethods == AirHumidifierMethods \cup {"async_set_motor_speed"}

AirFreshMethods ==
    GenericMethods \cup
    {"async_set_led_on", "async_set_led_off", "async_set_led_brightness",
     "async_set_extra_features", "async_reset_filter"}

\* The named-action methods a class defines or inherits: getattr(entity, name, None)
ClassMethods(cls) ==
    CASE cls = "XiaomiAirPurifier" -> AirPurifierMethods
      [] cls = "XiaomiAirPurifierMiot" -> AirPurifierMethods
      [] cls = "XiaomiAirHumidifier" -> AirHumidifierMethods
      [] cls = "XiaomiAirHumidifierMiot" -> AirHumidifierMiotMethods
      [] cls = "XiaomiAirFresh" -> AirFreshMethods

NamedMethods == AirPurifierMethods \cup AirHumidifierMiotMethods

\* Variant of MethodFeature: every method tests the child-lock flag
MethodFeature_AlwaysChildLock(method) == FEATURE_SET_CHILD_LOCK

\* The flag a method tests: `if self._device_features & FLAG == 0: return`
MethodFeature(method) ==
    CASE method \in {"async_set_buzzer_on", "async_set_buzzer_off"}
            -> FEATURE_SET_BUZZER
      [] method \in {"async_set_child_lock_on", "async_set_child_lock_off"}
            -> FEATURE_SET_CHILD_LOCK
      [] method \in {"async_set_led_on", "async_set_led_off"}
            -> FEATURE_SET_LED
      [] method = "async_set_led_brightness" -> FEATURE_SET_LED_BRIGHTNESS
      [] method = "async_set_favorite_level" -> FEATURE_SET_FAVORITE_LEVEL
      [] method = "async_set_fan_level" -> FEATURE_SET_FAN_LEVEL
      [] method \in {"async_set_auto_detect_on", "async_set_auto_detect_off"}
            -> FEATURE_SET_AUTO_DETECT
      [] method \in {"async_set_learn_mode_on", "async_set_learn_mode_off"}
            -> FEATURE_SET_LEARN_MODE
      [] method = "async_set_volume" -> FEATURE_SET_VOLUME
      [] method = "async_set_extra_features" -> FEATURE_SET_EXTRA_FEATURES
      [] method = "async_reset_filter" -> FEATURE_RESET_FILTER
      [] method = "async_set_target_humidity" -> FEATURE_SET_TARGET_HUMIDITY
      [] method \in {"async_set_dry_on", "async_set_dry_off"}
            -> FEATURE_SET_DRY
      [] method = "async_set_motor_speed" -> FEATURE_SET_MOTOR_SPEED

\* The keyword parameter of a method and its default; "" when it takes none
MethodParam(method) ==
    CASE method = "async_set_led_brightness" -> <<"brightness", 2>>
      [] method = "async_set_favorite_level" -> <<"level", 1>>
      [] method = "async_set_fan_level" -> <<"level", 1>>
      [] method = "async_set_volume" -> <<"volume", 50>>
      [] method = "async_set_extra_features" -> <<"features", 1>>
      [] method = "async_set_target_humidity" -> <<"humidity", 40>>
      [] method = "async_set_motor_speed" -> <<"motor_speed", 400>>
      [] OTHER -> <<"", 0>>

\* The value bound to the method's parameter by entity_method(**params)
BoundArg(method, params) ==
    LET p == MethodParam(method) IN
    IF p[1] = "" THEN None
    ELSE IF p[1] \in DOMAIN params THEN params[p[1]]
    ELSE PyInt(p[2])

\* The vendor function a method hands to _try_command, with its argument
VendorCall(method, arg) ==
    CASE method = "async_set_buzzer_on" -> <<"set_buzzer", PyBool(TRUE)>>
      [] method = "async_set_buzzer_off" -> <<"set_buzzer", PyBool(FALSE)>>
      [] method = "async_set_child_lock_on" -> <<"set_child_lock", PyBool(TRUE)>>
      [] method = "async_set_child_lock_off" -> <<"set_child_lock", PyBool(FALSE)>>
      [] method = "async_set_led_on" -> <<"set_led", PyBool(TRUE)>>
      [] method = "async_set_led_off" -> <<"set_led", PyBool(FALSE)>>
      [] method = "async_set_led_brightness"
            -> <<"set_led_brightness", EnumMember(arg)>>
      [] method = "async_set_favorite_level" -> <<"set_favorite_level", arg>>
      [] method = "async_set_fan_level" -> <<"set_fan_level", arg>>
      [] method = "async_set_auto_detect_on" -> <<"set_auto_detect", PyBool(TRUE)>>
      [] method = "async_set_auto_detect_off" -> <<"set_auto_detect", PyBool(FALSE)>>
      [] method = "async_set_learn_mode_on" -> <<"set_learn_mode", PyBool(TRUE)>>
      [] method = "async_set_learn_mode_off" -> <<"set_learn_mode", PyBool(FALSE)>>
      [] method = "async_set_volume" -> <<"set_volume", arg>>
      [] method = "async_set_extra_features" -> <<"set_extra_features", arg>>
      [] method = "async_reset_filter" -> <<"reset_filter", None>>
      [] method = "async_set_target_humidity" -> <<"set_target_humidity", arg>>
      [] method = "async_set_dry_on" -> <<"set_dry", PyBool(TRUE)>>
      [] method = "async_set_dry_off" -> <<"set_dry", PyBool(FALSE)>>
      [] method = "async_set_motor_speed" -> <<"set_speed", arg>>

\* The synchronous part of a named-action method, up to its first await:
\* "return" (flag absent), an exception raised before the call, or "call"
NamedMethodStart(e, method, params) ==
    LET arg == BoundArg(method, params) IN
    IF BitAnd(e._device_features, MethodFeature(method)) = 0 THEN
        [outcome |-> "return", func |-> "", args |-> None]
    ELSE IF method = "async_set_led_brightness"
            /\ arg.value \notin LedBrightnessValues THEN
        [outcome |-> "ValueError", func |-> "", args |-> None]
    ELSE
        [outcome |-> "call", func |-> VendorCall(method, arg)[1],
         args |-> VendorCall(method, arg)[2]]

\* str.title() on the speed names the hosts sends
Title(speed) ==
    CASE speed = "auto" -> "Auto"
      [] speed = "low" -> "Low"
      [] speed = "idle" -> "Idle"
      [] speed = "medium" -> "Medium"
      [] speed = "high" -> "High"
      [] OTHER -> speed

\* The members of the OperationMode enum a class's async_set_speed indexes by name
OperationModeNames(cls) ==
    CASE cls = "XiaomiAirPurifier" -> AirpurifierOperationMode
      [] cls = "XiaomiAirPurifierMiot" -> AirpurifierMiotOperationMode
      [] cls = "XiaomiAirHumidifier" ->
            {AirhumidifierOperationMode[i] : i \in DOMAIN AirhumidifierOperationMode}
      [] cls = "XiaomiAirFresh" -> AirfreshOperationMode
      [] OTHER -> {}

\* supported_features property of XiaomiGenericDevice
supported_features == SUPPORT_SET_SPEED

\* The synchronous part of async_set_speed(speed), up to its first await
SetSpeedStart(e, speed) ==
    IF e.cls = "XiaomiAirHumidifierMiot" THEN
        IF speed \in DOMAIN REVERSE_MODE_MAPPING
        THEN [outcome |-> "call", func |-> "set_mode",
              args |-> EnumMember(PyStr(REVERSE_MODE_MAPPING[speed]))]
        ELSE [outcome |-> "KeyError", func |-> "", args |-> None]
    ELSE IF BitAnd(supported_features, SUPPORT_SET_SPEED) = 0 THEN
        [outcome |-> "return", func |-> "", args |-> None]
    ELSE IF Title(speed) \in OperationModeNames(e.cls) THEN
        [outcome |-> "call", func |-> "set_mode",
         args |-> EnumMember(PyStr(Title(speed)))]
    ELSE [outcome |-> "KeyError", func |-> "", args |-> None]

(***************************************************************************)
(* Service schemas (voluptuous) and SERVICE_TO_METHOD.                     *)
(***************************************************************************)
\* AIRPURIFIER_SERVICE_SCHEMA: entity_id only
AIRPURIFIER_SERVICE_SCHEMA == [key |-> "", kind |-> "none", min |-> 0, max |-> 0, in |-> {}]

SERVICE_SCHEMA_LED_BRIGHTNESS ==
    [key |-> "brightness", kind |-> "Clamp", min |-> 0, max |-> 2, in |-> {}]

SERVICE_SCHEMA_FAVORITE_LEVEL ==
    [key |-> "level", kind |-> "Clamp", min |-> 0, max |-> 17, in |-> {}]

SERVICE_SCHEMA_FAN_LEVEL ==
    [key |-> "level", kind |-> "Clamp", min |-> 1, max |-> 3, in |-> {}]

SERVICE_SCHEMA_VOLUME ==
    [key |-> "volume", kind |-> "Clamp", min |-> 0, max |-> 100, in |-> {}]

\* cv.positive_int: vol.All(vol.Coerce(int), vol.Range(min=0))
SERVICE_SCHEMA_EXTRA_FEATURES ==
    [key |-> "features", kind |-> "RangeMin", min |-> 0, max |-> 0, in |-> {}]

SERVICE_SCHEMA_TARGET_HUMIDITY ==
    [key |-> "humidity", kind |-> "In", min |-> 0, max |-> 0,
     in |-> {30, 40, 50, 60, 70, 80}]

SERVICE_SCHEMA_MOTOR_SPEED ==
    [key |-> "motor_speed", kind |-> "Clamp", min |-> 200, max |-> 2000, in |-> {}]

\* service name (the SERVICE_* constant) -> method and schema
SERVICE_TO_METHOD ==
    [s \in {"SERVICE_SET_BUZZER_ON", "SERVICE_SET_BUZZER_OFF",
            "SERVICE_SET_FAN_LED_ON", "SERVICE_SET_FAN_LED_OFF",
            "SERVICE_SET_CHILD_LOCK_ON", "SERVICE_SET_CHILD_LOCK_OFF",
            "SERVICE_SET_AUTO_DETECT_ON", "SERVICE_SET_AUTO_DETECT_OFF",
            "SERVICE_SET_LEARN_MODE_ON", "SERVICE_SET_LEARN_MODE_OFF",
            "SERVICE_RESET_FILTER", "SERVICE_SET_LED_BRIGHTNESS",
            "SERVICE_SET_FAVORITE_LEVEL", "SERVICE_SET_FAN_LEVEL",
            "SERVICE_SET_VOLUME", "SERVICE_SET_EXTRA_FEATURES",
            "SERVICE_SET_TARGET_HUMIDITY", "SERVICE_SET_DRY_ON",
            "SERVICE_SET_DRY_OFF", "SERVICE_SET_MOTOR_SPEED"} |->
     CASE s = "SERVICE_SET_BUZZER_ON" ->
            [method |-> "async_set_buzzer_on", schema |-> AIRPURIFIER_SERVICE_SCHEMA]
       [] s = "SERVICE_SET_BUZZER_OFF" ->
            [method |-> "async_set_buzzer_off", schema |-> AIRPURIFIER_SERVICE_SCHEMA]
       [] s = "SERVICE_SET_FAN_LED_ON" ->
            [method |-> "async_set_led_on", schema |-> AIRPURIFIER_SERVICE_SCHEMA]
       [] s = "SERVICE_SET_FAN_LED_OFF" ->
            [method |-> "async_set_led_off", schema |-> AIRPURIFIER_SERVICE_SCHEMA]
       [] s = "SERVICE_SET_CHILD_LOCK_ON" ->
            [method |-> "async_set_child_lock_on", schema |-> AIRPURIFIER_SERVICE_SCHEMA]
       [] s = "SERVICE_SET_CHILD_LOCK_OFF" ->
            [method |-> "async_set_child_lock_off", schema |-> AIRPURIFIER_SERVICE_SCHEMA]
       [] s = "SERVICE_SET_AUTO_DETECT_ON" ->
            [method |-> "async_set_auto_detect_on", schema |-> AIRPURIFIER_SERVICE_SCHEMA]
       [] s = "SERVICE_SET_AUTO_DETECT_OFF" ->
            [method |-> "async_set_auto_detect_off", schema |-> AIRPURIFIER_SERVICE_SCHEMA]
       [] s = "SERVICE_SET_LEARN_MODE_ON" ->
            [method |-> "async_set_learn_mode_on", schema |-> AIRPURIFIER_SERVICE_SCHEMA]
       [] s = "SERVICE_SET_LEARN_MODE_OFF" ->
            [method |-> "async_set_learn_mode_off", schema |-> AIRPURIFIER_SERVICE_SCHEMA]
       [] s = "SERVICE_RESET_FILTER" ->
            [method |-> "async_reset_filter", schema |-> AIRPURIFIER_SERVICE_SCHEMA]
       [] s = "SERVICE_SET_LED_BRIGHTNESS" ->
            [method |-> "async_set_led_brightness", schema |-> SERVICE_SCHEMA_LED_BRIGHTNESS]
       [] s = "SERVICE_SET_FAVORITE_LEVEL" ->
            [method |-> "async_set_favorite_level", schema |-> SERVICE_SCHEMA_FAVORITE_LEVEL]
       [] s = "SERVICE_SET_FAN_LEVEL" ->
            [method |-> "async_set_fan_level", schema |-> SERVICE_SCHEMA_FAN_LEVEL]
       [] s = "SERVICE_SET_VOLUME" ->
            [method |-> "async_set_volume", schema |-> SERVICE_SCHEMA_VOLUME]
       [] s = "SERVICE_SET_EXTRA_FEATURES" ->
            [method |-> "async_set_extra_features", schema |-> SERVICE_SCHEMA_EXTRA_FEATURES]
       [] s = "SERVICE_SET_TARGET_HUMIDITY" ->
            [method |-> "async_set_target_humidity", schema |-> SERVICE_SCHEMA_TARGET_HUMIDITY]
       [] s = "SERVICE_SET_DRY_ON" ->
            [method |-> "async_set_dry_on", schema |-> AIRPURIFIER_SERVICE_SCHEMA]
       [] s = "SERVICE_SET_DRY_OFF" ->
            [method |-> "async_set_dry_off", schema |-> AIRPURIFIER_SERVICE_SCHEMA]
       [] s = "SERVICE_SET_MOTOR_SPEED" ->
            [method |-> "async_set_motor_speed", schema |-> SERVICE_SCHEMA_MOTOR_SPEED]]

\* Variant of Clamp: the value passes unchanged
Clamp_Identity(n, min, max) == n

\* vol.Clamp(min, max)
Clamp(n, min, max) == IF n < min THEN min ELSE IF n > max THEN max ELSE n

\* The validator of the schema's key, applied to an int: the accepted value,
\* or None for vol.Invalid
ValidateValue(schema, n) ==
    CASE schema.kind = "Clamp" -> PyInt(Clamp(n, schema.min, schema.max))
      [] schema.kind = "In" -> IF n \in schema.in THEN PyInt(n) ELSE None
      [] schema.kind = "RangeMin" -> IF n >= schema.min THEN PyInt(n) ELSE None
      [] OTHER -> None

\* Schema validation of the call's parameters (service.data without entity_id):
\* the key is Required, other keys are not allowed
ValidateParams(schema, params) ==
    IF schema.key = "" THEN
        [ok |-> params = << >>, params |-> << >>]
    ELSE IF DOMAIN params # {schema.key} THEN
        [ok |-> FALSE, params |-> << >>]
    ELSE
        LET v == ValidateValue(schema, params[schema.key].value) IN
        [ok |-> v # None, params |-> (schema.key :> v)]

(***************************************************************************)
(* The handlers' code after their await.                                   *)
(***************************************************************************)
\* Variant of TryCommandReply: the error is logged whether or not the
\* entity was available
TryCommandReply_LogsAlways(e, reply) ==
    IF reply.raised THEN
        [entity |-> [e EXCEPT !._available = FALSE],
         result |-> PyBool(FALSE),
         errors |-> 1]
    ELSE
        [entity |-> e, result |-> PyBool(reply.result = SUCCESS), errors |-> 0]

\* Variant of TryCommandReply: a vendor call that returns makes the entity
\* available
TryCommandReply_Recovers(e, reply) ==
    IF reply.raised THEN
        [entity |-> IF e._available THEN [e EXCEPT !._available = FALSE] ELSE e,
         result |-> PyBool(FALSE),
         errors |-> IF e._available THEN 1 ELSE 0]
    ELSE
        [entity |-> [e EXCEPT !._available = TRUE],
         result |-> PyBool(reply.result = SUCCESS), errors |-> 0]

\* _try_command once the executor job has completed: a reply either raised
\* DeviceException or carries the vendor function's result
TryCommandReply(e, reply) ==
    IF reply.raised THEN
        [entity |-> IF e._available THEN [e EXCEPT !._available = FALSE] ELSE e,
         result |-> PyBool(FALSE),
         errors |-> IF e._available THEN 1 ELSE 0]
    ELSE
        [entity |-> e, result |-> PyBool(reply.result = SUCCESS), errors |-> 0]

\* async_set_speed awaits _try_command and falls off its end: it returns None
AsyncSetSpeedReply(e, reply) ==
    [TryCommandReply(e, reply) EXCEPT !.result = None]

\* Variant of AsyncTurnOnFinish: the state is set whatever the result
AsyncTurnOnFinish_Always(e, result) ==
    [e EXCEPT !._state = PyBool(TRUE), !._skip_update = TRUE]

\* async_turn_on after `result` is known
AsyncTurnOnFinish(e, result) ==
    IF Truthy(result)
    THEN [e EXCEPT !._state = PyBool(TRUE), !._skip_update = TRUE]
    ELSE e

\* Variant of AsyncTurnOffFinish: the state is set, the skip flag is not
AsyncTurnOffFinish_NoSkip(e, result) ==
    IF Truthy(result) THEN [e EXCEPT !._state = PyBool(FALSE)] ELSE e

\* async_turn_off after `result` is known
AsyncTurnOffFinish(e, result) ==
    IF Truthy(result)
    THEN [e EXCEPT !._state = PyBool(FALSE), !._skip_update = TRUE]
    ELSE e

\* The rest of the coroutine `c` (cmd record) once the vendor call replied
CommandFinish(e, c, reply) ==
    LET r == IF c.inner = "async_set_speed"
             THEN AsyncSetSpeedReply(e, reply)
             ELSE TryCommandReply(e, reply)
    IN  CASE c.method = "async_turn_on" ->
                [r EXCEPT !.entity = AsyncTurnOnFinish(r.entity, r.result)]
          [] c.method = "async_turn_off" ->
                [r EXCEPT !.entity = AsyncTurnOffFinish(r.entity, r.result)]
          [] OTHER -> r

\* getattr(state, attribute) succeeds
HasAttr(state, attribute) == attribute \in DOMAIN state.fields

\* Variant of ExtractValueFromAttribute: the raw value is passed through
ExtractValueFromAttribute_Raw(state, attribute) == state.fields[attribute]

\* XiaomiGenericDevice._extract_value_from_attribute
ExtractValueFromAttribute(state, attribute) ==
    LET value == state.fields[attribute] IN
    IF value.kind = "Enum" THEN value.value ELSE value

\* Variant of UpdateFromStatus: _available is left as it was
UpdateFromStatus_KeepsAvailability(e, state) ==
    [entity |-> [e EXCEPT !._state = state.is_on], raised |-> "", errors |-> 0]

\* async_update once the status call returned `state`: the try-body
UpdateFromStatus(e, state) ==
    LET e1 == [e EXCEPT !._available = TRUE, !._state = state.is_on]
        table == e._available_attributes
    IN  IF \A key \in DOMAIN table : HasAttr(state, table[key])
        THEN [entity |->
                [e1 EXCEPT !._state_attrs =
                    [key \in DOMAIN table |->
                        ExtractValueFromAttribute(state, table[key])] @@ @],
              raised |-> "",
              errors |-> 0]
        ELSE [entity |-> e1, raised |-> "AttributeError", errors |-> 0]

\* Variant of UpdateFailed: the failed poll also withdraws the capabilities
UpdateFailed_DropsFeatures(e) ==
    IF e._available
    THEN [entity |-> [e EXCEPT !._available = FALSE, !._device_features = 0],
          raised |-> "", errors |-> 1]
    ELSE [entity |-> e, raised |-> "", errors |-> 0]

\* async_update once the status call raised DeviceException: the except-body
UpdateFailed(e) ==
    IF e._available
    THEN [entity |-> [e EXCEPT !._available = FALSE], raised |-> "", errors |-> 1]
    ELSE [entity |-> e, raised |-> "", errors |-> 0]

\* The synchronous part of an entity method, up to its first await.  `inner`
\* is the coroutine that awaits _try_command (async_turn_on delegates to
\* async_set_speed when a speed is given).
MethodStart(e, method, params) ==
    CASE method = "async_turn_on" ->
            IF "speed" \in DOMAIN params /\ Truthy(params["speed"])
            THEN [inner |-> "async_set_speed"] @@ SetSpeedStart(e, params["speed"].value)
            ELSE [inner |-> "async_turn_on", outcome |-> "call",
                  func |-> "on", args |-> None]
      [] method = "async_turn_off" ->
            [inner |-> "async_turn_off", outcome |-> "call",
             func |-> "off", args |-> None]
      [] method = "async_set_speed" ->
            [inner |-> "async_set_speed"] @@ SetSpeedStart(e, params["speed"].value)
      [] OTHER ->
            [inner |-> method] @@ NamedMethodStart(e, method, params)

\* Variant of PollStart: the poll is skipped but the flag stays set
PollStart_KeepsFlag(e) ==
    IF e._skip_update
    THEN [entity |-> e, outcome |-> "skipped"]
    ELSE [entity |-> e, outcome |-> "call"]

\* async_update before its await: a set _skip_update is cleared and the poll ends
PollStart(e) ==
    IF e._skip_update
    THEN [entity |-> [e EXCEPT !._skip_update = FALSE], outcome |-> "skipped"]
    ELSE [entity |-> e, outcome |-> "call"]

(***************************************************************************)
(* Inputs.                                                                 *)
(***************************************************************************)
Models ==
    {MODEL_AIRPURIFIER_V1, MODEL_AIRPURIFIER_V3, MODEL_AIRPURIFIER_PRO,
     MODEL_AIRPURIFIER_PRO_V7, MODEL_AIRPURIFIER_2S, MODEL_AIRPURIFIER_3,
     MODEL_AIRPURIFIER_3H, MODEL_AIRPURIFIER_PROH, MODEL_AIRPURIFIER_3C,
     MODEL_AIRHUMIDIFIER_V1, MODEL_AIRHUMIDIFIER_CA1, MODEL_AIRHUMIDIFIER_CA4,
     MODEL_AIRHUMIDIFIER_CB1, MODEL_AIRFRESH_VA2, MODEL_UNSUPPORTED}

\* The config entries of a run with one device: host -> model
OneDevice == {("h1" :> m) : m \in Models}

\* entity_id the host gives the entity of a config entry
EntityId(h) == <<"fan", h>>

\* What the vendor function of a command can do: return ["ok"], return
\* something else, or raise DeviceException
Replies ==
    {[raised |-> FALSE, result |-> SUCCESS],
     [raised |-> FALSE, result |-> PyList(<<PyStr("error")>>)],
     [raised |-> TRUE, result |-> None]}

\* Field names of the status objects: every field some table projects
StatusFields ==
    UNION {{t[k] : k \in DOMAIN t} :
            t \in {AVAILABLE_ATTRIBUTES_AIRPURIFIER, AVAILABLE_ATTRIBUTES_AIRPURIFIER_PRO,
                   AVAILABLE_ATTRIBUTES_AIRPURIFIER_PRO_V7, AVAILABLE_ATTRIBUTES_AIRPURIFIER_2S,
                   AVAILABLE_ATTRIBUTES_AIRPURIFIER_3, AVAILABLE_ATTRIBUTES_AIRPURIFIER_3C,
                   AVAILABLE_ATTRIBUTES_AIRPURIFIER_V3, AVAILABLE_ATTRIBUTES_AIRHUMIDIFIER,
                   AVAILABLE_ATTRIBUTES_AIRHUMIDIFIER_CA_AND_CB,
                   AVAILABLE_ATTRIBUTES_AIRHUMIDIFIER_CA4, AVAILABLE_ATTRIBUTES_AIRFRESH}}

\* Status fields the vendor library types as Enum members
EnumFields == {"mode", "led_brightness"}

\* A status object: is_on, and each field but those of `missing` holding `n`
StatusObject(on, n, missing) ==
    [is_on |-> PyBool(on),
     fields |-> [f \in StatusFields \ missing |->
                    IF f \in EnumFields THEN EnumMember(PyInt(n)) ELSE PyInt(n)]]

\* What self._device.status can return
Statuses ==
    {StatusObject(on, n, missing) :
        on \in BOOLEAN, n \in {1, 2}, missing \in {{}, {"mode"}, {"buzzer"}}}

\* Two of them: complete status objects of a device that is on, and off
StatusesOnOff == {StatusObject(TRUE, 1, {}), StatusObject(FALSE, 2, {})}

Speeds == {"auto", "low", "idle"}

\* Values a caller passes for an int parameter of the schema
ArgSamples(schema) ==
    CASE schema.kind = "Clamp" ->
            {schema.min - 1, schema.min, schema.max, schema.max + 1}
      [] schema.kind = "In" -> {30, 35, 80, 90}
      [] schema.kind = "RangeMin" -> {schema.min - 1, schema.min, schema.min + 1}
      [] OTHER -> {}

\* service.data without entity_id, as sent by a caller
ParamSamples(schema) ==
    {<< >>} \cup
    (IF schema.key = "" THEN {("brightness" :> PyInt(1))}
     ELSE {(schema.key :> PyInt(n)) : n \in ArgSamples(schema)})

\* The schema of the service that maps to a method
SchemaOf(method) ==
    LET s == CHOOSE s \in DOMAIN SERVICE_TO_METHOD :
                SERVICE_TO_METHOD[s].method = method
    IN  SERVICE_TO_METHOD[s].schema

\* keyword arguments of a direct call of a named-action method
DirectParams(method) ==
    LET schema == SchemaOf(method) IN
    {<< >>} \cup {(schema.key :> PyInt(n)) : n \in ArgSamples(schema)}

(***************************************************************************)
(* State.                                                                  *)
(***************************************************************************)
VARIABLES
    entries,        \* config entries: host -> model
    loaded,         \* hosts whose async_setup_entry has run
    hass_data,      \* hass.data[DATA_KEY]: host -> entity
    order,          \* insertion order of hass.data[DATA_KEY]
    added,          \* hosts whose entity was passed to async_add_entities
    cmd,            \* host -> the command coroutine awaiting its executor job
    poll,           \* host -> the async_update awaiting its executor job
    update_tasks,   \* host -> state of the update task a service call created
    service,        \* the running async_service_handler
    out             \* what the step just taken logged and raised

vars ==
    <<entries, loaded, hass_data, order, added, cmd, poll, update_tasks,
      service, out>>

IdleCmd ==
    [pc |-> "idle", method |-> "", inner |-> "", func |-> "", args |-> None, by |-> ""]

IdlePoll == [pc |-> "idle", by |-> ""]

IdleService ==
    [pc |-> "idle", method |-> "", params |-> << >>, view |-> "", size |-> 0,
     entities |-> << >>, i |-> 0, update_tasks |-> << >>]

\* The step just taken: which handler step it was, on which host's entity
\* ("" when none), the method it ran, the parameters the call came with,
\* whether the entity was available when a reply arrived, the number of
\* _LOGGER.error lines the step emitted and the exception that left the
\* handler ("" when none)
Out(step, host, method, data, was_available, errors, raised) ==
    [step |-> step, host |-> host, method |-> method, data |-> data,
     was_available |-> was_available, errors |-> errors, raised |-> raised]

InitWith(configs) ==
    /\ entries \in configs
    /\ loaded = {}
    /\ hass_data = << >>
    /\ order = << >>
    /\ added = {}
    /\ cmd = [h \in DOMAIN entries |-> IdleCmd]
    /\ poll = [h \in DOMAIN entries |-> IdlePoll]
    /\ update_tasks = [h \in DOMAIN entries |-> "none"]
    /\ service = IdleService
    /\ out = Out("", "", "", << >>, FALSE, 0, "")

Init == InitWith(OneDevice)

Hosts == DOMAIN entries

(***************************************************************************)
(* Setup.                                                                  *)
(***************************************************************************)
\* async_setup_entry for the config entry of host h
Setup(h) ==
    /\ h \in DOMAIN entries \ loaded
    /\ loaded' = loaded \cup {h}
    /\ IF EntityClass(entries[h]) = ""
       THEN /\ out' = Out("setup", h, "", << >>, FALSE, 1, "")
            /\ UNCHANGED <<hass_data, order, added>>
       ELSE /\ hass_data' = (h :> NewEntity(entries[h], EntityId(h))) @@ hass_data
            /\ order' = IF h \in DOMAIN hass_data THEN order ELSE Append(order, h)
            /\ added' = added \cup {h}
            /\ out' = Out("setup", h, "", << >>, FALSE, 0, "")
    /\ UNCHANGED <<entries, cmd, poll, update_tasks, service>>

(***************************************************************************)
(* Commands.                                                               *)
(***************************************************************************)
\* An exception a method raises before its await leaves the method
StartRaised(s) == IF s.outcome \in {"call", "return"} THEN "" ELSE s.outcome

\* entity.<method>(**params) runs up to its first await.  A vendor call is
\* handed to the executor (async_add_executor_job) and the coroutine waits.
Invoke(h, method, params, by) ==
    LET s == MethodStart(hass_data[h], method, params) IN
    /\ cmd[h].pc = "idle"
    /\ cmd' = IF s.outcome = "call"
              THEN [cmd EXCEPT ![h] =
                        [pc |-> "executor", method |-> method, inner |-> s.inner,
                         func |-> s.func, args |-> s.args, by |-> by]]
              ELSE cmd
    /\ out' = Out("call", h, method, params, FALSE, 0, StartRaised(s))
    /\ UNCHANGED <<entries, loaded, hass_data, order, added, poll>>

\* The host calls async_turn_on(speed=...)
TurnOn(h, params) ==
    /\ h \in DOMAIN hass_data
    /\ Invoke(h, "async_turn_on", params, "host")
    /\ UNCHANGED <<update_tasks, service>>

\* The host calls async_turn_off()
TurnOff(h) ==
    /\ h \in DOMAIN hass_data
    /\ Invoke(h, "async_turn_off", << >>, "host")
    /\ UNCHANGED <<update_tasks, service>>

\* The host calls async_set_speed(speed)
SetSpeed(h, speed) ==
    /\ h \in DOMAIN hass_data
    /\ Invoke(h, "async_set_speed", ("speed" :> PyStr(speed)), "host")
    /\ UNCHANGED <<update_tasks, service>>

\* A named-action method is called on the entity directly
CallMethod(h, method, params) ==
    /\ h \in DOMAIN hass_data
    /\ method \in ClassMethods(hass_data[h].cls)
    /\ Invoke(h, method, params, "host")
    /\ UNCHANGED <<update_tasks, service>>

\* hass.async_create_task(entity.async_update_ha_state(True)) in the handler
CreateUpdateTask(h) ==
    /\ update_tasks' = [update_tasks EXCEPT ![h] = "created"]
    /\ service' = [service EXCEPT !.update_tasks = Append(@, h),
                                  !.i = @ + 1, !.pc = "loop"]

\* The executor job of a command completes; the coroutine runs to its end.
\* A command the service handler awaited lets the handler go on.
CommandReply(h, reply) ==
    LET r == CommandFinish(hass_data[h], cmd[h], reply) IN
    /\ cmd[h].pc = "executor"
    /\ hass_data' = [hass_data EXCEPT ![h] = r.entity]
    /\ cmd' = [cmd EXCEPT ![h] = IdleCmd]
    /\ out' = Out("reply", h, cmd[h].method, << >>, hass_data[h]._available, r.errors, "")
    /\ IF cmd[h].by = "service"
       THEN CreateUpdateTask(h)
       ELSE UNCHANGED <<update_tasks, service>>
    /\ UNCHANGED <<entries, loaded, order, added, poll>>

(***************************************************************************)
(* Polling.                                                                *)
(***************************************************************************)
\* async_update up to its await, for the host's scheduled poll (by = "host")
\* or for an update task of the service handler (by = "service")
StartUpdate(h, by) ==
    LET s == PollStart(hass_data[h]) IN
    /\ hass_data' = [hass_data EXCEPT ![h] = s.entity]
    /\ poll' = IF s.outcome = "call"
               THEN [poll EXCEPT ![h] = [pc |-> "executor", by |-> by]]
               ELSE poll
    /\ out' = Out("update", h, "", << >>, FALSE, 0, "")

\* Variant of Poll: the vendor calls block the event loop, so that a poll
\* starts only when no vendor call of any device is in flight
Poll_OnEventLoop(h) ==
    /\ h \in DOMAIN hass_data
    /\ poll[h].pc = "idle"
    /\ \A g \in Hosts : cmd[g].pc = "idle" /\ poll[g].pc = "idle"
    /\ StartUpdate(h, "host")
    /\ UNCHANGED <<entries, loaded, order, added, cmd, update_tasks, service>>

\* The host's scheduler polls the entity
Poll(h) ==
    /\ h \in DOMAIN hass_data
    /\ poll[h].pc = "idle"
    /\ StartUpdate(h, "host")
    /\ UNCHANGED <<entries, loaded, order, added, cmd, update_tasks, service>>

\* An update task of the service handler runs async_update_ha_state(True):
\* the host skips the update while one is already in progress for the entity
UpdateTask(h) ==
    /\ update_tasks[h] = "created"
    /\ IF poll[h].pc # "idle"
       THEN /\ update_tasks' = [update_tasks EXCEPT ![h] = "none"]
            /\ out' = Out("update", h, "", << >>, FALSE, 0, "")
            /\ UNCHANGED <<hass_data, poll>>
       ELSE /\ StartUpdate(h, "service")
            /\ update_tasks' = [update_tasks EXCEPT ![h] =
                    IF PollStart(hass_data[h]).outcome = "call"
                    THEN "polling" ELSE "none"]
    /\ UNCHANGED <<entries, loaded, order, added, cmd, service>>

\* The executor job of self._device.status completes: with a status object,
\* or raising DeviceException
StatusReply(h, raised, state) ==
    LET r == IF raised THEN UpdateFailed(hass_data[h])
             ELSE UpdateFromStatus(hass_data[h], state)
    IN
    /\ poll[h].pc = "executor"
    /\ hass_data' = [hass_data EXCEPT ![h] = r.entity]
    /\ poll' = [poll EXCEPT ![h] = IdlePoll]
    /\ update_tasks' = IF poll[h].by = "service"
                       THEN [update_tasks EXCEPT ![h] = "none"]
                       ELSE update_tasks
    /\ out' = Out("status", h, "", << >>, hass_data[h]._available, r.errors, r.raised)
    /\ UNCHANGED <<entries, loaded, order, added, cmd, service>>

(***************************************************************************)
(* The broadcast service handler.                                          *)
(***************************************************************************)
\* [entity for entity in hass.data[DATA_KEY].values()
\*  if entity.entity_id in entity_ids]
RECURSIVE MatchingEntities(_, _, _)
MatchingEntities(hosts, data, entity_ids) ==
    IF hosts = << >> THEN << >>
    ELSE IF data[Head(hosts)].entity_id \in entity_ids
         THEN <<Head(hosts)>> \o MatchingEntities(Tail(hosts), data, entity_ids)
         ELSE MatchingEntities(Tail(hosts), data, entity_ids)

\* The entities the handler iterates: its own list, or the live values()
\* view of the registry
ServiceEntities == IF service.view = "values" THEN order ELSE service.entities

\* A service call arrives: the host validates service.data against the
\* service's schema, then async_service_handler runs up to its loop
ServiceCall(name, entity_ids, params) ==
    LET v == ValidateParams(SERVICE_TO_METHOD[name].schema, params) IN
    /\ service.pc = "idle"
    /\ \A h \in DOMAIN update_tasks : update_tasks[h] = "none"
    /\ order # << >>       \* the services are registered by a successful setup
    /\ IF v.ok
       THEN /\ service' =
                [pc |-> "loop",
                 method |-> SERVICE_TO_METHOD[name].method,
                 params |-> v.params,
                 view |-> IF entity_ids # {} THEN "list" ELSE "values",
                 size |-> Len(order),
                 entities |-> IF entity_ids # {}
                              THEN MatchingEntities(order, hass_data, entity_ids)
                              ELSE << >>,
                 i |-> 1,
                 update_tasks |-> << >>]
            /\ out' = Out("service", "", SERVICE_TO_METHOD[name].method, params, FALSE, 0, "")
       ELSE /\ out' = Out("service", "", SERVICE_TO_METHOD[name].method, params, FALSE, 0, "Invalid")
            /\ UNCHANGED service
    /\ UNCHANGED <<entries, loaded, hass_data, order, added, cmd, poll, update_tasks>>

\* `for entity in entities` asks for the next entity and runs one iteration
\* up to its await; when there is no next entity the loop is over, and the
\* handler returns (`if update_tasks:` fails) or awaits asyncio.wait
ServiceStep ==
    /\ service.pc = "loop"
    /\ IF service.view = "values" /\ Len(order) # service.size
       THEN \* dictionary changed size during iteration
            /\ service' = IdleService
            /\ out' = Out("service", "", service.method, << >>, FALSE, 0, "RuntimeError")
            /\ UNCHANGED <<cmd, update_tasks>>
       ELSE IF service.i > Len(ServiceEntities)
       THEN /\ service' = IF service.update_tasks = << >>
                           THEN IdleService
                           ELSE [service EXCEPT !.pc = "wait"]
            /\ out' = IF service.update_tasks = << >>
                       THEN Out("return", "", "", << >>, FALSE, 0, "")
                       ELSE Out("wait", "", service.method, << >>, FALSE, 0, "")
            /\ UNCHANGED <<cmd, update_tasks>>
       ELSE LET h == ServiceEntities[service.i] IN
            IF service.method \notin ClassMethods(hass_data[h].cls)
            THEN \* getattr(entity, method["method"], None) is None: continue
                 /\ service' = [service EXCEPT !.i = @ + 1]
                 /\ out' = Out("continue", h, service.method, << >>, FALSE, 0, "")
                 /\ UNCHANGED <<cmd, update_tasks>>
            ELSE /\ Invoke(h, service.method, service.params, "service")
                 /\ LET s == MethodStart(hass_data[h], service.method, service.params) IN
                    CASE s.outcome = "call" ->
                            /\ service' = [service EXCEPT !.pc = "await"]
                            /\ UNCHANGED update_tasks
                      [] s.outcome = "return" -> CreateUpdateTask(h)
                      [] OTHER ->
                            /\ service' = IdleService
                            /\ UNCHANGED update_tasks
    /\ UNCHANGED <<entries, loaded, hass_data, order, added, poll>>

\* `await asyncio.wait(update_tasks)` returns and the handler with it
ServiceReturn ==
    /\ service.pc = "wait"
    /\ \A i \in DOMAIN service.update_tasks :
            update_tasks[service.update_tasks[i]] = "none"
    /\ service' = IdleService
    /\ out' = Out("return", "", "", << >>, FALSE, 0, "")
    /\ UNCHANGED <<entries, loaded, hass_data, order, added, cmd, poll, update_tasks>>

(***************************************************************************)
(* Specifications.                                                         *)
(***************************************************************************)
\* No handler of the service machinery is running
ServiceQuiet ==
    /\ service.pc = "idle"
    /\ \A h \in Hosts : update_tasks[h] = "none"

\* The handler is not running: it is idle or suspended at an await, so that
\* the event loop runs other tasks and callbacks
LoopYielded == service.pc # "loop"

\* No command or poll is waiting for its executor job
DevicesQuiet == \A h \in Hosts : cmd[h].pc = "idle" /\ poll[h].pc = "idle"

\* entity_ids a service call names
TargetSamples == {{}, {EntityId("h1"), <<"light", "other">>}, {<<"light", "other">>}}

\* One device driven by the host: commands and polls, interleaved at their awaits
Next ==
    \/ \E h \in Hosts : Setup(h)
    \/ \E h \in Hosts, p \in {<< >>} \cup {("speed" :> PyStr(s)) : s \in Speeds} :
            TurnOn(h, p)
    \/ \E h \in Hosts : TurnOff(h)
    \/ \E h \in Hosts, s \in Speeds : SetSpeed(h, s)
    \/ \E h \in Hosts, reply \in Replies : CommandReply(h, reply)
    \/ \E h \in Hosts : Poll(h)
    \/ \E h \in Hosts, state \in Statuses : StatusReply(h, FALSE, state)
    \/ \E h \in Hosts : StatusReply(h, TRUE, None)

Spec == Init /\ [][Next]_vars

\* One device and its named actions, called directly or through a service;
\* a new call or poll starts when the previous one is over
NextService ==
    \/ \E h \in Hosts : Setup(h)
    \/ \E h \in Hosts, m \in NamedMethods :
            \E p \in DirectParams(m) :
                ServiceQuiet /\ DevicesQuiet /\ CallMethod(h, m, p)
    \/ \E h \in Hosts, reply \in Replies : LoopYielded /\ CommandReply(h, reply)
    \/ \E h \in Hosts : ServiceQuiet /\ DevicesQuiet /\ Poll(h)
    \/ \E h \in Hosts : LoopYielded /\ UpdateTask(h)
    \/ \E h \in Hosts : LoopYielded /\ StatusReply(h, FALSE, StatusObject(TRUE, 1, {}))
    \/ \E h \in Hosts : LoopYielded /\ StatusReply(h, TRUE, None)
    \/ \E name \in DOMAIN SERVICE_TO_METHOD, ids \in TargetSamples :
            \E p \in ParamSamples(SERVICE_TO_METHOD[name].schema) :
                DevicesQuiet /\ ServiceCall(name, ids, p)
    \/ ServiceStep
    \/ ServiceReturn

SpecService == Init /\ [][NextService]_vars

(***************************************************************************)
(* Several devices and broadcasts.                                         *)
(***************************************************************************)
\* The config entries of a run with three devices: a purifier whose features
\* have the buzzer and the favorite level, one without the buzzer, an air
\* fresh (no favorite-level method) and a model of no supported family
ThreeDevices ==
    {("h1" :> MODEL_AIRPURIFIER_V1) @@ ("h2" :> MODEL_AIRPURIFIER_PRO)
        @@ ("h3" :> MODEL_AIRFRESH_VA2),
     ("h1" :> MODEL_AIRPURIFIER_V1) @@ ("h2" :> MODEL_AIRFRESH_VA2)
        @@ ("h3" :> MODEL_AIRPURIFIER_V1),
     ("h1" :> MODEL_AIRFRESH_VA2) @@ ("h2" :> MODEL_AIRPURIFIER_V1)
        @@ ("h3" :> MODEL_UNSUPPORTED)}

InitBroadcast == InitWith(ThreeDevices)

\* The services called in the runs with three devices
BroadcastServices == {"SERVICE_SET_BUZZER_ON", "SERVICE_SET_FAVORITE_LEVEL"}

\* service.data of these calls, without entity_id
BroadcastParams(name) ==
    IF SERVICE_TO_METHOD[name].schema.key = "" THEN {<< >>}
    ELSE {(SERVICE_TO_METHOD[name].schema.key :> PyInt(5))}

\* entity_ids these calls name: none, two of the devices and an entity of
\* another integration, that entity alone
BroadcastTargets ==
    {{}, {EntityId("h1"), EntityId("h2"), <<"light", "other">>},
     {<<"light", "other">>}}

\* Three config entries set up at any time, and broadcasts: the handler, the
\* commands it awaits and the update tasks it creates
NextBroadcast ==
    \/ \E h \in Hosts : LoopYielded /\ Setup(h)
    \/ \E name \in BroadcastServices, ids \in BroadcastTargets :
            \E p \in BroadcastParams(name) :
                DevicesQuiet /\ ServiceCall(name, ids, p)
    \/ ServiceStep
    \/ ServiceReturn
    \/ \E h \in Hosts, reply \in Replies : LoopYielded /\ CommandReply(h, reply)
    \/ \E h \in Hosts : LoopYielded /\ UpdateTask(h)
    \/ \E h \in Hosts :
            LoopYielded /\ StatusReply(h, FALSE, StatusObject(TRUE, 1, {}))
    \/ \E h \in Hosts : LoopYielded /\ StatusReply(h, TRUE, None)

SpecBroadcast == InitBroadcast /\ [][NextBroadcast]_vars

(***************************************************************************)
(* Two devices driven at the same time.                                    *)
(***************************************************************************)
\* The config entries of a run with two devices
TwoDevices ==
    {("h1" :> MODEL_AIRPURIFIER_V1) @@ ("h2" :> MODEL_AIRFRESH_VA2)}

InitDevices == InitWith(TwoDevices)

\* Two devices: the host's commands and polls of each, and a broadcast, run
\* as tasks of one event loop; each vendor call is an executor job the task
\* awaits, so that every task in the model is suspended at an await or idle
NextDevices ==
    \/ \E h \in Hosts : LoopYielded /\ Setup(h)
    \/ \E h \in Hosts : LoopYielded /\ TurnOff(h)
    \/ \E h \in Hosts, reply \in Replies : LoopYielded /\ CommandReply(h, reply)
    \/ \E h \in Hosts : LoopYielded /\ Poll(h)
    \/ \E h \in Hosts : LoopYielded /\ StatusReply(h, FALSE, StatusObject(TRUE, 1, {}))
    \/ \E h \in Hosts : LoopYielded /\ StatusReply(h, TRUE, None)
    \/ DevicesQuiet /\ ServiceCall("SERVICE_SET_BUZZER_ON", {}, << >>)
    \/ ServiceStep
    \/ ServiceReturn
    \/ \E h \in Hosts : LoopYielded /\ UpdateTask(h)

SpecDevices == InitDevices /\ [][NextDevices]_vars

(***************************************************************************)
(* Vocabulary of the properties.                                           *)
(***************************************************************************)
\* The capability a named action requires: the flag that carries its name
Requires(method) ==
    CASE method \in {"async_set_buzzer_on", "async_set_buzzer_off"} -> FEATURE_SET_BUZZER
      [] method \in {"async_set_led_on", "async_set_led_off"} -> FEATURE_SET_LED
      [] method \in {"async_set_child_lock_on", "async_set_child_lock_off"}
            -> FEATURE_SET_CHILD_LOCK
      [] method = "async_set_led_brightness" -> FEATURE_SET_LED_BRIGHTNESS
      [] method = "async_set_favorite_level" -> FEATURE_SET_FAVORITE_LEVEL
      [] method \in {"async_set_auto_detect_on", "async_set_auto_detect_off"}
            -> FEATURE_SET_AUTO_DETECT
      [] method \in {"async_set_learn_mode_on", "async_set_learn_mode_off"}
            -> FEATURE_SET_LEARN_MODE
      [] method = "async_set_volume" -> FEATURE_SET_VOLUME
      [] method = "async_reset_filter" -> FEATURE_RESET_FILTER
      [] method = "async_set_extra_features" -> FEATURE_SET_EXTRA_FEATURES
      [] method = "async_set_target_humidity" -> FEATURE_SET_TARGET_HUMIDITY
      [] method \in {"async_set_dry_on", "async_set_dry_off"} -> FEATURE_SET_DRY
      [] method = "async_set_fan_level" -> FEATURE_SET_FAN_LEVEL
      [] method = "async_set_motor_speed" -> FEATURE_SET_MOTOR_SPEED

\* The entity's feature bitset has the flag
Has(e, flag) == BitAnd(e._device_features, flag) # 0

\* The named actions with a declared argument domain
DomainMethods ==
    {"async_set_led_brightness", "async_set_favorite_level", "async_set_fan_level",
     "async_set_volume", "async_set_motor_speed", "async_set_target_humidity"}

\* The declared argument domain of a named action
InArgDomain(method, n) ==
    CASE method = "async_set_led_brightness" -> n \in {0, 1, 2}
      [] method = "async_set_favorite_level" -> n >= 0 /\ n <= 17
      [] method = "async_set_fan_level" -> n >= 1 /\ n <= 3
      [] method = "async_set_volume" -> n >= 0 /\ n <= 100
      [] method = "async_set_motor_speed" -> n >= 200 /\ n <= 2000
      [] method = "async_set_target_humidity" -> n \in {30, 40, 50, 60, 70, 80}
      [] method = "async_set_extra_features" -> n >= 0
      [] OTHER -> TRUE

\* The parameters of a call are in the action's domain
InDomain(method, params) ==
    \A k \in DOMAIN params : InArgDomain(method, params[k].value)

\* The int carried by the argument of a vendor call
ArgValue(args) == IF args.kind = "Enum" THEN args.value.value ELSE args.value

\* The service handler's loop is at the entity of host h
ServiceAt(h) ==
    /\ service.pc = "loop"
    /\ service.i <= Len(ServiceEntities)
    /\ ServiceEntities[service.i] = h

\* The step is a direct call of the named action `method` on the entity of
\* host h, with the parameters out'.data
DirectCall(h, method) ==
    /\ out'.step = "call"
    /\ out'.host = h
    /\ out'.method = method
    /\ CallMethod(h, method, out'.data)

\* The step is the service handler's iteration for the entity of host h
HandlerStep(h, method) ==
    /\ ServiceAt(h)
    /\ service.method = method
    /\ ServiceStep

\* The named action `method` is invoked on the entity of host h with
\* in-domain arguments: directly, or by the service handler
Dispatch(h, method) ==
    \/ DirectCall(h, method) /\ InDomain(method, out'.data)
    \/ HandlerStep(h, method)

\* The step is the arrival of a call of service `name` with parameters
\* out'.data
ServiceCalled(name) ==
    /\ out'.step = "service"
    /\ out'.method = SERVICE_TO_METHOD[name].method
    /\ \E ids \in TargetSamples : ServiceCall(name, ids, out'.data)

OkReply == [raised |-> FALSE, result |-> SUCCESS]

\* The step handles a device-communication fault of host h
Fault(h) ==
    \/ CommandReply(h, [raised |-> TRUE, result |-> None])
    \/ StatusReply(h, TRUE, None)

(***************************************************************************)
(* Properties C1 .. C10.                                                   *)
(***************************************************************************)
\* C1: when the capability a named action requires is not in the device's
\* feature bitset, invoking the action (directly or from the service handler)
\* issues no vendor call, raises nothing, logs nothing and leaves the entity
\* (availability, on/off state, skip flag, attributes) as it was.
C1_CapabilityAbsentIsNoOp ==
    [][\A h \in DOMAIN hass_data, m \in NamedMethods :
        (Dispatch(h, m) /\ ~Has(hass_data[h], Requires(m)))
            => /\ cmd' = cmd
               /\ poll' = poll
               /\ hass_data' = hass_data
               /\ out'.raised = ""
               /\ out'.errors = 0]_vars

\* The handler has just skipped an action on an available entity that has the
\* method but not the flag
C1_Witness ==
    \E h \in DOMAIN hass_data :
        /\ out.step = "call"
        /\ out.host = h
        /\ out.method \in ClassMethods(hass_data[h].cls)
        /\ ~Has(hass_data[h], Requires(out.method))
        /\ service.pc = "loop" /\ service.i = 2
        /\ cmd[h].pc = "idle"
        /\ hass_data[h]._available

\* C2: when the feature bitset has the capability a named action requires,
\* a dispatch of the action with in-domain arguments issues exactly one
\* vendor call, and the reply (ok, not ok or a fault) is followed by no retry.
C2_ExactlyOneVendorCall ==
    [][\A h \in DOMAIN hass_data :
        /\ \A m \in NamedMethods :
                (Dispatch(h, m) /\ Has(hass_data[h], Requires(m)))
                    => cmd[h].pc = "idle" /\ cmd'[h].pc = "executor"
        /\ \A reply \in Replies :
                CommandReply(h, reply) => cmd'[h].pc = "idle"]_vars

C4_LogOncePerTransition ==
    [][\A h \in DOMAIN hass_data :
        LET fell == hass_data[h]._available /\ ~hass_data'[h]._available IN
        /\ out'.errors = IF fell THEN 1 ELSE 0
        /\ Fault(h) => ~hass_data'[h]._available
        /\ fell => Fault(h)]_vars

\* A fault has just taken the device from available to unavailable, with one
\* error line
C4_Witness ==
    \E h \in DOMAIN hass_data :
        /\ out.step \in {"reply", "status"}
        /\ out.was_available
        /\ ~hass_data[h]._available
        /\ out.errors = 1

\* C5: a failed poll leaves the device unavailable; a poll whose status call
\* succeeds on an unavailable device makes it available and sets the on/off
\* state to the status object's is_on, and changes nothing of the entity but
\* availability, on/off state and attribute map.
C5_PollRecovery ==
    [][\A h \in DOMAIN hass_data :
        /\ StatusReply(h, TRUE, None) => ~hass_data'[h]._available
        /\ \A state \in Statuses :
            (~hass_data[h]._available /\ StatusReply(h, FALSE, state))
                => /\ hass_data'[h]._available
                   /\ hass_data'[h]._state = state.is_on
                   /\ hass_data'[h] =
                        [hass_data[h] EXCEPT
                            !._available = TRUE,
                            !._state = state.is_on,
                            !._state_attrs = hass_data'[h]._state_attrs]
                   /\ cmd' = cmd]_vars

\* A successful status call has just made an unavailable device available
C5_Witness ==
    \E h \in DOMAIN hass_data :
        /\ out.step = "status"
        /\ ~out.was_available
        /\ out.raised = ""
        /\ hass_data[h]._available
        /\ hass_data[h]._state = PyBool(TRUE)

\* C6: when the vendor call of turn_on (called without a speed) or of
\* turn_off returns the ok token, the handler ends with the on/off state at
\* the commanded value and the skip flag armed.
C6_TurnOnOffSuccess ==
    [][\A h \in DOMAIN hass_data :
        (CommandReply(h, OkReply) /\ cmd[h].inner \in {"async_turn_on", "async_turn_off"})
            => /\ hass_data'[h]._state = PyBool(cmd[h].inner = "async_turn_on")
               /\ hass_data'[h]._skip_update
               /\ cmd'[h].pc = "idle"]_vars

\* turn_off has just succeeded on an available device
C6_Witness ==
    \E h \in DOMAIN hass_data :
        /\ out.step = "reply"
        /\ out.method = "async_turn_off"
        /\ hass_data[h]._state = PyBool(FALSE)
        /\ hass_data[h]._skip_update
        /\ hass_data[h]._available

\* C7: when the vendor set_mode call of a speed change (set_speed, or turn_on
\* with a speed) returns the ok token, the handler ends with the skip flag
\* armed and, for turn_on, the on/off state True.
C7_SpeedChangeSuccess ==
    [][\A h \in DOMAIN hass_data :
        (CommandReply(h, OkReply) /\ cmd[h].inner = "async_set_speed")
            => /\ hass_data'[h]._skip_update
               /\ cmd[h].method = "async_turn_on"
                    => hass_data'[h]._state = PyBool(TRUE)]_vars

\* C8: a poll that finds the skip flag armed issues no status call, leaves
\* availability, on/off state and attributes as they were and clears the
\* flag; a poll that finds it clear issues the status call.  However often
\* the flag was armed, it is clear after one skipped poll.
C8_SkipsExactlyOnePoll ==
    [][\A h \in DOMAIN hass_data :
        Poll(h) =>
            IF hass_data[h]._skip_update
            THEN /\ poll'[h].pc = "idle"
                 /\ hass_data'[h] = [hass_data[h] EXCEPT !._skip_update = FALSE]
            ELSE /\ poll'[h].pc = "executor"
                 /\ hass_data' = hass_data]_vars

\* A poll has just been skipped after a successful turn_on or turn_off
C8_Witness ==
    \E h \in DOMAIN hass_data :
        /\ out.step = "update"
        /\ poll[h].pc = "idle"
        /\ ~hass_data[h]._skip_update
        /\ hass_data[h]._state # None

\* C9: when a poll's status call succeeds and a projected field is absent
\* from the status object, the poll raises nothing, the device is available,
\* the attribute of the absent field is null and every other attribute of the
\* table has the value of its field.
C9_PartialTelemetry ==
    [][\A h \in DOMAIN hass_data, state \in Statuses :
        LET table == hass_data[h]._available_attributes IN
        ((\E key \in DOMAIN table : ~HasAttr(state, table[key]))
            /\ StatusReply(h, FALSE, state))
            => /\ out'.raised = ""
               /\ hass_data'[h]._available
               /\ \A key \in DOMAIN table :
                    hass_data'[h]._state_attrs[key] =
                        IF HasAttr(state, table[key])
                        THEN ExtractValueFromAttribute(state, table[key])
                        ELSE None]_vars

\* C10: the attribute map of every entity has the key 'model' and every key
\* of the entity's projection table, and no step removes a key.
C10_AttributeKeys ==
    /\ [](\A h \in DOMAIN hass_data :
            /\ ATTR_MODEL \in DOMAIN hass_data[h]._state_attrs
            /\ DOMAIN hass_data[h]._available_attributes
                    \subseteq DOMAIN hass_data[h]._state_attrs)
    /\ [][\A h \in DOMAIN hass_data :
            DOMAIN hass_data[h]._state_attrs
                \subseteq DOMAIN hass_data'[h]._state_attrs]_vars

\* After a successful poll and a failed one the map still has all its keys,
\* the refreshed ones with values
C10_Witness ==
    \E h \in DOMAIN hass_data :
        /\ out.step = "status"
        /\ out.errors = 1
        /\ ~hass_data[h]._available
        /\ \E k \in DOMAIN hass_data[h]._available_attributes :
                hass_data[h]._state_attrs[k] # None

(***************************************************************************)
(* Properties C11 .. C20.                                                  *)
(***************************************************************************)
\* The scalar normalisation of a raw status value: the underlying value of
\* an enumeration member, any other value as it is
Normalise(value) == IF value.kind = "Enum" THEN value.value ELSE value

\* C11: after a successful poll, for every (public_name, raw_field) pair of
\* the entity's projection table the reported attribute public_name equals
\* the scalar normalisation of the raw status field, and no reported
\* attribute is an enumeration member.
C11_ProjectionNormalised ==
    [][\A h \in DOMAIN hass_data, state \in Statuses :
        (StatusReply(h, FALSE, state) /\ out'.raised = "")
            => LET table == hass_data[h]._available_attributes
                   attrs == hass_data'[h]._state_attrs
               IN  /\ \A key \in DOMAIN table :
                        attrs[key] = Normalise(state.fields[table[key]])
                   /\ \A key \in DOMAIN attrs : attrs[key].kind # "Enum"]_vars

\* A poll has just succeeded and an attribute projected from an enumeration
\* field holds the member's plain value
C11_Witness ==
    /\ out.step = "status"
    /\ out.raised = ""
    /\ \E h \in DOMAIN hass_data :
        LET table == hass_data[h]._available_attributes IN
        /\ out.host = h
        /\ hass_data[h]._available
        /\ \E key \in DOMAIN table :
            /\ table[key] \in EnumFields
            /\ hass_data[h]._state_attrs[key] = PyInt(2)

\* The hosts of a sequence of hosts
Range(s) == {s[i] : i \in DOMAIN s}

\* The number of targets the running handler resolved when it was called
ResolvedCount ==
    IF service.view = "values" THEN service.size ELSE Len(service.entities)

\* The step ends the running handler, by return or by an exception
HandlerEnds == service.pc # "idle" /\ service'.pc = "idle"

\* C12: with target ids, a broadcast resolves to exactly the managed devices
\* whose entity id is in the list, ids of no managed device being ignored
\* without error; without target ids it resolves to every device of the
\* registry; and the handler does not end before it has taken the action to
\* every device it resolved.
C12_TargetResolution ==
    [][/\ \A name \in BroadcastServices, ids \in BroadcastTargets :
            (out'.step = "service" /\ ServiceCall(name, ids, out'.data))
                => /\ out'.raised = ""
                   /\ IF ids # {}
                      THEN /\ service'.view = "list"
                           /\ Range(service'.entities) =
                                {h \in DOMAIN hass_data :
                                    hass_data[h].entity_id \in ids}
                           /\ Len(service'.entities) =
                                Cardinality(Range(service'.entities))
                      ELSE /\ service'.view = "values"
                           /\ service'.size = Cardinality(DOMAIN hass_data)
                           /\ Range(order) = DOMAIN hass_data
       /\ HandlerEnds => service.i > ResolvedCount]_vars

\* The targets the running handler resolved when it was called
Resolved ==
    IF service.view = "values" THEN SubSeq(order, 1, service.size)
    ELSE service.entities

FaultReply == [raised |-> TRUE, result |-> None]

\* The loop of the running handler can take its next entity: the registry
\* it may be iterating has the size it had when the loop started
IterationIntact == service.view = "values" => Len(order) = service.size

\* The entity of host h has the method of the running broadcast and the
\* capability it requires
Capable(h) ==
    /\ service.method \in ClassMethods(hass_data[h].cls)
    /\ Has(hass_data[h], Requires(service.method))

\* The step before was the reply of a vendor call of the running broadcast
\* that raised a communication fault on an available device
FaultJustHandled ==
    /\ out.step = "reply"
    /\ out.was_available
    /\ out.errors = 1
    /\ service.pc = "loop"

\* C13: a communication fault of the vendor call of one target of a
\* broadcast, at any position, makes that device alone unavailable and raises
\* nothing; the broadcast goes on: the next capable target has its vendor call
\* issued and no error is raised, an ok reply of a target is a success that
\* logs nothing, and the handler does not reach the end of its loop before
\* every capable target had its call.
C13_BroadcastIsolation ==
    /\ [][\A h \in DOMAIN hass_data :
            /\ (cmd[h].by = "service" /\ CommandReply(h, FaultReply))
                => /\ out'.raised = ""
                   /\ ~hass_data'[h]._available
                   /\ \A g \in DOMAIN hass_data \ {h} :
                        hass_data'[g] = hass_data[g] /\ cmd'[g] = cmd[g]
                   /\ service'.pc = "loop"
                   /\ service'.i = service.i + 1
                   /\ service'.update_tasks = Append(service.update_tasks, h)
            /\ (FaultJustHandled /\ h \in Range(Resolved)
                    /\ HandlerStep(h, service.method) /\ Capable(h))
                => /\ cmd'[h].pc = "executor"
                   /\ cmd'[h].by = "service"
                   /\ out'.raised = ""
            /\ (cmd[h].by = "service" /\ CommandReply(h, OkReply))
                => /\ TryCommandReply(hass_data[h], OkReply).result = PyBool(TRUE)
                   /\ out'.errors = 0
                   /\ out'.raised = ""
                   /\ hass_data' = hass_data]_vars
    /\ [](service.pc = "wait"
            => \A h \in Range(Resolved) :
                    Capable(h) => h \in Range(service.update_tasks))

\* C14: within one broadcast the dispatches run concurrently: while the vendor
\* call of one target is in flight and has not completed, the handler can go
\* on and dispatch to the next target it resolved.
C14_ConcurrentDispatch ==
    \A h \in DOMAIN hass_data :
        (/\ cmd[h].pc = "executor"
         /\ cmd[h].by = "service"
         /\ service.i < Len(Resolved)
         /\ IterationIntact)
            => ENABLED ServiceStep

\* C15: the handler of a broadcast completes only after every device it
\* dispatched to has finished its command and the poll requested for it: when
\* the handler ends, no command of the broadcast is in flight and no update
\* task it created is pending or polling.
C15_CompletesAfterPolls ==
    [][HandlerEnds
        => /\ \A h \in DOMAIN hass_data :
                ~(cmd[h].pc = "executor" /\ cmd[h].by = "service")
           /\ \A h \in Range(service.update_tasks) :
                /\ cmd[h].pc = "idle"
                /\ update_tasks[h] = "none"
                /\ poll[h].pc = "idle"]_vars

\* C16: for each device of the resolved target set the handler invokes the
\* dispatch once and then requests one poll, targets that skip the command
\* included, so that at its return the polls it requested are those of the
\* resolved targets, each once and in their order.
C16_EveryTargetPolledOnce ==
    [][(service.pc # "idle" /\ out'.step = "return")
        => service.update_tasks = Resolved]_vars

\* The model is in an exact model list
InExactList(model) ==
    \/ model = MODEL_AIRPURIFIER_3C
    \/ model \in MODELS_PURIFIER_MIOT
    \/ model \in MODELS_HUMIDIFIER_MIOT

\* The model has the prefix of a family
HasFamilyPrefix(model) ==
    \/ StartsWith(model, <<"zhimi", "airpurifier">>)
    \/ StartsWith(model, <<"zhimi", "humidifier">>)
    \/ StartsWith(model, <<"zhimi", "airfresh">>)

\* C17: the setup of a device whose model is in no known model list and has
\* no family prefix creates no entity: the registry is unchanged, no entity is
\* handed to the host, one error is logged and nothing is raised.
C17_UnsupportedModelCreatesNothing ==
    [][\A h \in Hosts :
        (out'.step = "setup" /\ out'.host = h /\ Setup(h)
            /\ ~InExactList(entries[h]) /\ ~HasFamilyPrefix(entries[h]))
            => /\ hass_data' = hass_data
               /\ order' = order
               /\ added' = added
               /\ out'.errors = 1
               /\ out'.raised = ""]_vars

\* The setup of the third entry, of an unsupported model, has just failed
\* beside two devices that are set up
C17_Witness ==
    /\ out.step = "setup"
    /\ out.host = "h3"
    /\ out.errors = 1
    /\ ~InExactList(entries["h3"]) /\ ~HasFamilyPrefix(entries["h3"])
    /\ "h3" \in loaded
    /\ DOMAIN hass_data = {"h1", "h2"}
    /\ order = <<"h1", "h2">>
    /\ added = {"h1", "h2"}

\* The entity classes of the exact lists that hold the model
ExactClasses(model) ==
    {c \in {"XiaomiAirPurifierMiot", "XiaomiAirHumidifierMiot"} :
        \/ c = "XiaomiAirPurifierMiot"
            /\ (model = MODEL_AIRPURIFIER_3C \/ model \in MODELS_PURIFIER_MIOT)
        \/ c = "XiaomiAirHumidifierMiot" /\ model \in MODELS_HUMIDIFIER_MIOT}

\* The entity classes of the family prefixes the model has
PrefixClasses(model) ==
    {c \in {"XiaomiAirPurifier", "XiaomiAirHumidifier", "XiaomiAirFresh"} :
        \/ c = "XiaomiAirPurifier" /\ StartsWith(model, <<"zhimi", "airpurifier">>)
        \/ c = "XiaomiAirHumidifier" /\ StartsWith(model, <<"zhimi", "humidifier">>)
        \/ c = "XiaomiAirFresh" /\ StartsWith(model, <<"zhimi", "airfresh">>)}

\* The entity classes the setup of host h resolved its model to
ResolvedClasses(h) ==
    IF h \in DOMAIN hass_data THEN {hass_data[h].cls} ELSE {}

InFlight(h) == cmd[h].pc = "executor" \/ poll[h].pc = "executor"

\* The status object the polls of the runs with two devices return
StatusOn == StatusObject(TRUE, 1, {})

\* C19: a vendor call in flight on one device stalls no other device.  While
\* the executor job of device a's command or poll has not completed and the
\* event loop is free to take its next task, a poll of another device b can
\* start, b's poll in flight can complete, and a command of b can start and
\* complete; the completion of b's poll updates b's state and availability
\* from the status and leaves a's call in flight.
C19_OtherDeviceNotStalled ==
    /\ [](\A a \in DOMAIN hass_data : \A b \in DOMAIN hass_data \ {a} :
            (InFlight(a) /\ LoopYielded) =>
                /\ poll[b].pc = "idle" => ENABLED Poll(b)
                /\ poll[b].pc = "executor" => ENABLED StatusReply(b, FALSE, StatusOn)
                /\ cmd[b].pc = "idle" => ENABLED TurnOff(b)
                /\ cmd[b].pc = "executor" => ENABLED CommandReply(b, OkReply))
    /\ [][\A b \in DOMAIN hass_data :
            (/\ out'.step = "status"
             /\ out'.host = b
             /\ out'.raised = ""
             /\ StatusReply(b, FALSE, StatusOn)) =>
                /\ hass_data'[b]._available
                /\ hass_data'[b]._state = StatusOn.is_on
                /\ poll'[b].pc = "idle"
                /\ \A a \in DOMAIN hass_data \ {b} :
                        /\ InFlight(a) => InFlight(a)'
                        /\ hass_data'[a] = hass_data[a]]_vars

\* Reached: the poll of h2 has just completed and made h2 available, its
\* state on, while a command of h1 is still in flight
C19_Witness ==
    /\ out.step = "status"
    /\ out.host = "h2"
    /\ out.raised = ""
    /\ ~out.was_available
    /\ "h1" \in DOMAIN hass_data
    /\ cmd["h1"].pc = "executor"
    /\ hass_data["h2"]._available
    /\ hass_data["h2"]._state = StatusOn.is_on


\* C20: a command that succeeds on an unavailable device makes it available.
\* When the vendor call of a command dispatched to an entity whose _available
\* is False returns the ok token, the entity's _available is True afterwards.
C20_SuccessMakesAvailable ==
    [][\A h \in DOMAIN hass_data :
        (/\ out'.step = "reply"
         /\ out'.host = h
         /\ ~out'.was_available
         /\ CommandReply(h, OkReply)) => hass_data'[h]._available]_vars


\* C21: the variant is fixed at construction.  In every state, each entity's
\* capability bitset, attribute-projection table and operation-mode list are
\* those its constructor selected from the model string of its config entry,
\* whatever polls, commands and broadcasts have run since.
C21_VariantFixed ==
    \A h \in DOMAIN hass_data :
        LET e == NewEntity(entries[h], EntityId(h)) IN
        /\ hass_data[h]._device_features = e._device_features
        /\ hass_data[h]._available_attributes = e._available_attributes
        /\ hass_data[h]._speed_list = e._speed_list

\* Reached: a broadcast has dispatched its command and awaits its update
\* tasks, and the poll of one of them has just completed and filled the
\* attributes
C21_Witness ==
    /\ service.pc = "wait"
    /\ out.step = "status"
    /\ out.raised = ""
    /\ hass_data[out.host]._available
    /\ hass_data[out.host]._state_attrs
            # NewEntity(entries[out.host], EntityId(out.host))._state_attrs


\* A successful turn_on or turn_off has returned and no poll has started
\* since: the command set _skip_update, and the next async_update clears it
\* before it reads the status.  A poll in flight in such a state began its
\* status read before the command returned.
CommandedSince(h) == hass_data[h]._skip_update

\* C22: a poll whose status read began before a turn_on or turn_off returned
\* success never overwrites the commanded on/off state.  When the status
\* reply of such a poll arrives, whatever it reports, the entity's _state is
\* still the value the command set.
C22_NoStaleOverwrite ==
    [][\A h \in DOMAIN hass_data :
        (/\ out'.step = "status"
         /\ out'.host = h
         /\ poll[h].pc = "executor"
         /\ CommandedSince(h)) => hass_data'[h]._state = hass_data[h]._state]_vars


\* C23: an entity starts unavailable with its on/off state unknown, only a
\* poll whose status call returned makes it available, and a step of an
\* unavailable entity (a failed poll, a failed command) logs no error.  An
\* entity that never had a successful poll has therefore logged no error.
C23_AvailableOnlyByPoll ==
    [][\A h \in Hosts :
        /\ (h \notin DOMAIN hass_data /\ h \in DOMAIN hass_data') =>
                /\ ~hass_data'[h]._available
                /\ hass_data'[h]._state = None
        /\ (h \in DOMAIN hass_data /\ ~hass_data[h]._available) =>
                /\ hass_data'[h]._available =>
                        /\ out'.step = "status"
                        /\ out'.host = h
                        /\ \E state \in Statuses : StatusReply(h, FALSE, state)
                /\ out'.host = h => out'.errors = 0]_vars

\* Reached: the poll of an entity that never had a status has just failed,
\* the entity is unavailable as before and nothing was logged
C23_Witness ==
    /\ out.step = "status"
    /\ ~out.was_available
    /\ out.errors = 0
    /\ ~hass_data[out.host]._available
    /\ hass_data[out.host]._state = None


\* The vendor function returned something other than ["ok"]
NonOkReply == [raised |-> FALSE, result |-> PyList(<<PyStr("error")>>)]

\* The reply of h's turn_on or turn_off arrives in this step
PowerReply(h, reply) ==
    /\ out'.step = "reply"
    /\ out'.host = h
    /\ out'.method \in {"async_turn_on", "async_turn_off"}
    /\ CommandReply(h, reply)

\* C24: a failed turn_on or turn_off changes nothing of the local state.
\* When the vendor call of turn_on or turn_off raises DeviceException or
\* returns something other than the ok token, _state and _skip_update are
\* as before; when it returned without raising, _available is as before too
\* and no error is logged.
C24_FailedPowerCommandFrame ==
    [][\A h \in DOMAIN hass_data :
        /\ PowerReply(h, FaultReply) =>
                /\ hass_data'[h]._state = hass_data[h]._state
                /\ hass_data'[h]._skip_update = hass_data[h]._skip_update
        /\ PowerReply(h, NonOkReply) =>
                /\ hass_data'[h]._state = hass_data[h]._state
                /\ hass_data'[h]._skip_update = hass_data[h]._skip_update
                /\ hass_data'[h]._available = hass_data[h]._available
                /\ out'.errors = 0]_vars

\* Reached: the vendor call of turn_on raised on an available device that
\* is off; the error is logged, the entity is still off and the next poll
\* is not skipped
C24_Witness ==
    /\ out.step = "reply"
    /\ out.method = "async_turn_on"
    /\ out.was_available
    /\ out.errors = 1
    /\ hass_data[out.host]._state = PyBool(FALSE)
    /\ ~hass_data[out.host]._skip_update

====
